---- MODULE Spec2Model ----
(***************************************************************************)
(* besedka: the chat ring buffer (internal/chat), the hub that routes      *)
(* records to bounded per-user delivery queues (internal/ws/hub.go) and    *)
(* the authentication service (internal/auth).                             *)
(*                                                                         *)
(* Spec      : connection goroutines calling Hub.Join / Hub.Dispatch /     *)
(*             Hub.Leave, interleaved at every lock acquisition and at     *)
(*             every channel send.                                         *)
(* Hub3Spec  : the hub of three users, two of them connecting, with the    *)
(*             admin's RemoveDeletedUser.                                  *)
(* AuthSpec  : the AuthService operations over its in-memory indices and   *)
(*             the token bucket of the storage.                            *)
(* RegSpec   : the registration calls of the AuthService, with a           *)
(*             CompleteRegistration other calls interleave with.           *)
(* ConnSpec  : one Connection.Handle with its two worker goroutines, the   *)
(*             transport and the parent context.                           *)
(* ChatSpec  : a chat over the storage: appends, range reads and           *)
(*             ListMessages.                                               *)
(* StoreSpec : the calls of BboltStorage on chats, messages and tokens.    *)
(* MigrateSpec : BboltStorage.MigrateTokens over a file with or without   *)
(*             the legacy token bucket.                                    *)
(* LoginSpec : two AuthService.Login calls running under users.RLock().    *)
(* EnsureSpec : the hub with Hub.EnsureDMsFor for a user registered while  *)
(*             others are connected.                                       *)
(* RestoreSpec : a chat over the storage, restored by NewHub when the      *)
(*             process starts again.                                       *)
(***************************************************************************)
EXTENDS Integers, Sequences, FiniteSets, TLC

\* ------------------------------------------------------------------ bounds
\* Ring capacity handed to chat.New (chatMaxRecords = 500 in the hub).
MaxRecords == 2
\* Capacity of a delivery channel (make(chan ..., 100) in Hub.Join).
QueueCap == 1
\* Number of AddRecord calls in one run (all chats together).
MaxSeq == 2
\* Number of delivery channels Hub.Join may create in one run.
MaxChans == 2
\* Number of UpsertMessage calls that fail in one run.
MaxFail == 1
\* Number of join messages clients send in one run.
MaxJoinMsgs == 1
\* Number of client messages Dispatch returns on unserved in one run.
MaxRejected == 1
\* Number of RemoveDeletedUser calls in one run.
MaxRemoved == 1

Users == {"u1", "u2"}
\* The user ids of a hub whose user provider knows a third user.
UserIDs == Users \cup {"u3"}
\* Connection goroutines (one per upgraded websocket).
Procs == {"p1", "p2"}

\* The users whose websockets a connection goroutine serves: the first
\* goroutine always serves u1, the other ones any user (the same user twice
\* or two users; the runs with the two users swapped are mirror images).
ClientsOf(p) == IF p = "p1" THEN {"u1"} ELSE Users

None == "none"

\* sort.Strings order of the user ids
Rank(u) == IF u = "u1" THEN 1 ELSE IF u = "u2" THEN 2 ELSE 3

TownHall == <<"townhall">>

\* fmt.Sprintf("dm_%s_%s", ids[0], ids[1]) after sort.Strings(ids)
getDMID(u1, u2) ==
    IF Rank(u1) <= Rank(u2) THEN <<"dm", u1, u2>> ELSE <<"dm", u2, u1>>

\* Every user is taken for a participant of every DM.
InAnyDM(userID, chatID) == chatID[1] = "dm"

\* Only the first user id of a DM's id is looked at.
IsFirstInDM(userID, chatID) ==
    /\ chatID[1] = "dm"
    /\ Len(chatID) = 3
    /\ chatID[2] = userID

\* chatID[:3] == "dm_", exactly two parts, one of them the user
isUserInDM(userID, chatID) ==
    /\ chatID[1] = "dm"
    /\ Len(chatID) = 3
    /\ (chatID[2] = userID \/ chatID[3] = userID)

\* The chats NewHub holds after construction: Town Hall and the DM mesh
\* EnsureDMsFor builds over the users of the user provider.
NewHub(provided) ==
    {TownHall} \cup {getDMID(x[1], x[2]) : x \in {y \in provided \X provided : y[1] # y[2]}}

ChatIDs == NewHub(Users)

\* A chat id no hub has a chat for.
NoChat == <<"nochat">>

\* The chat ids a client message may carry.
AllChatIDs == NewHub(UserIDs) \cup {NoChat}

VARIABLES
    chats,          \* chatID -> [LastSeq, FirstSeq, Records, LastIndex, Members]
    hubChats,       \* the keys of h.chats
    chatMux,        \* chatID -> goroutine holding Chat.mux exclusively, or None
    hubMu,          \* goroutine holding Hub.mu for writing, or None
    connectedUsers, \* userID -> channel id, 0 when the user has no entry
    chans,          \* channel id -> [buf, closed]
    nextChan,       \* id of the next channel make() returns
    dbMessages,     \* chatID -> seq -> sender of the stored message, or None
    pc,             \* goroutine -> position
    loc,            \* goroutine -> its local variables
    panicked,       \* a goroutine sent on a closed channel
    appended,       \* history: chatID -> seqs given to successful appends
    persistFailed,  \* history: chatID -> an UpsertMessage of the chat failed
    fanout,         \* history: userID -> chatID -> seqs the callback enqueued, in order
    joinMsgs,       \* history: number of join messages dispatched
    dropped,        \* history: channel of the last send that found it full, 0 if none
    rejected,       \* history: number of client messages Dispatch returned on unserved
    removed         \* history: the users RemoveDeletedUser was called for, in order

hubVars == <<chats, hubChats, chatMux, hubMu, connectedUsers, chans, nextChan,
             dbMessages, pc, loc, panicked, appended, persistFailed,
             fanout, joinMsgs, dropped, rejected, removed>>

VARIABLES
    users,              \* userID -> UserCredentials (Status "none": not in the map)
    liveTokens,         \* token hash -> userID, None when absent
    liveSince,          \* token hash -> instant of the last Set, 0 when absent
    userTokens,         \* userID -> token hashes
    registrationTokens, \* registration token -> userID, None when absent
    dbTokens,           \* storage bucket tokens_v2: token hash -> userID
    nextToken,          \* number of tokens generated so far, plus one
    now,                \* the clock
    calls,              \* goroutine -> the GetUserID / Logoff / CompleteRegistration call it is in
    usedTOTP,           \* history: userID -> codes a Login of the user succeeded with
    deletedOK,          \* history: userID -> DeleteUser returned nil and no reset since
    storageFailed,      \* history: number of storage calls that returned an error
    ops,                \* history: number of steps of the auth service but failed logins
    completedWith,      \* history: registration tokens a CompleteRegistration succeeded with
    revokedHashes       \* history: token hashes DeleteUser, ResetPassword or Logoff revoked

authVars == <<users, liveTokens, liveSince, userTokens, registrationTokens,
              dbTokens, nextToken, now, calls, usedTOTP, deletedOK, storageFailed, ops,
              completedWith, revokedHashes>>

VARIABLES
    conn,               \* the Connection of one websocket, its two workers and its transport
    db,                 \* the buckets of the BboltStorage
    got,                \* what the last call of the storage or of Chat.GetRecords returned
    logins              \* the Login calls of the goroutines that run Login side by side

\* The state outside the hub and the auth service.
extVars == <<conn, db, got, logins>>

vars == <<hubVars, authVars, extVars>>

\* ------------------------------------------------------------- chat buffer

\* chat.New.  Members[u] is the value c.Members[u] reads: a missing key reads
\* false, as does the entry Leave keeps.
New == [LastSeq |-> 0, FirstSeq |-> 0, Records |-> <<>>, LastIndex |-> -1,
        Members |-> [u \in UserIDs |-> FALSE]]

NextSeqStale(c) == chats[c].LastSeq

\* c.LastSeq++ ; record.Seq = c.LastSeq
NextSeq(c) == chats[c].LastSeq + 1

\* The ring update of AddRecord (switch on len(c.Records) < c.MaxRecords)
RingPut(ch, record) ==
    IF Len(ch.Records) < MaxRecords
    THEN [ch EXCEPT !.FirstSeq = IF ch.FirstSeq = 0 THEN record.Seq ELSE @,
                    !.Records = Append(@, record),
                    !.LastIndex = @ + 1]
    ELSE LET i == (ch.LastIndex + 1) % MaxRecords
         IN [ch EXCEPT !.FirstSeq = @ + 1,
                       !.Records = [@ EXCEPT ![i + 1] = record],
                       !.LastIndex = i]

RECURSIVE SumLastSeq(_)
SumLastSeq(S) ==
    IF S = {} THEN 0
    ELSE LET c == CHOOSE x \in S : TRUE IN chats[c].LastSeq + SumLastSeq(S \ {c})

\* AddRecord calls made so far: every call increments one LastSeq
Appends == SumLastSeq(AllChatIDs)

\* Members currently marked connected (range c.Members, online == true)
OnlineMembers(c) == {u \in UserIDs : chats[c].Members[u]}

Min(a, b) == IF a <= b THEN a ELSE b

\* cap(c.Records): the ring grows by append, one record at a time, and the
\* runtime doubles the capacity of a small slice that is full.
RECURSIVE CapFrom(_, _)
CapFrom(cap, n) == IF n <= cap THEN cap ELSE CapFrom(2 * cap, n)

Cap(n) == IF n = 0 THEN 0 ELSE CapFrom(1, n)

\* c.Records[:high]: high may pass len(c.Records) up to its capacity, and the
\* elements past the length are zero records.
SliceTo(records, high) ==
    [i \in 1..high |-> IF i <= Len(records) THEN records[i]
                       ELSE [Seq |-> 0, UserID |-> "none"]]

\* Chat.GetLastRecords(count): the window [LastSeq-count+1, LastSeq] copied
\* from the ring, in one piece or in two when it passes the end of c.Records.
GetLastRecords(c, count) ==
    LET ch == chats[c] IN
    IF ch.LastSeq = 0 THEN <<>>
    ELSE LET total == ch.LastSeq - ch.FirstSeq + 1
             cnt == Min(count, total)
             from == ch.LastSeq - cnt + 1
             head == IF Len(ch.Records) = MaxRecords
                     THEN (ch.LastIndex + 1) % MaxRecords ELSE 0
             offset == from - ch.FirstSeq
             n == Len(ch.Records)
             startIdx == (head + offset) % n
             n1 == n - startIdx
         IN IF startIdx + cnt <= n
            THEN SubSeq(ch.Records, startIdx + 1, startIdx + cnt)
            ELSE SubSeq(ch.Records, startIdx + 1, n) \o SliceTo(ch.Records, cnt - n1)

\* The inputs on which GetLastRecords panics: % len(c.Records) with an empty
\* ring, or c.Records[:count-n1] asking for more than the capacity of the ring.
GetLastRecordsPanics(c, count) ==
    LET ch == chats[c]
        total == ch.LastSeq - ch.FirstSeq + 1
        cnt == Min(count, total)
        n == Len(ch.Records)
        head == IF n = MaxRecords THEN (ch.LastIndex + 1) % MaxRecords ELSE 0
        startIdx == (head + (ch.LastSeq - cnt + 1 - ch.FirstSeq)) % n
    IN /\ ch.LastSeq # 0
       /\ \/ n = 0
          \/ startIdx + cnt > n /\ cnt - (n - startIdx) > Cap(n)

\* --------------------------------------------------------------------- hub

DeliverAlways(buf, msg) == Append(buf, msg)

\* select { case ch <- msg: default: } on an open channel
Deliver(buf, msg) == IF Len(buf) < QueueCap THEN Append(buf, msg) ELSE buf

RecordMsg(c, record) ==
    [Type |-> "messages", ChatID |-> c, Messages |-> <<record>>, via |-> "callback"]

JoinReply(c, records) ==
    [Type |-> "messages", ChatID |-> c, Messages |-> records, via |-> "join"]

NoRecord == [Seq |-> 0, UserID |-> None]

NoLoc == [userID |-> None, fromServer |-> 0, chat |-> TownHall, record |-> NoRecord,
          pending |-> {}, receiver |-> None, ch |-> 0, todo |-> {}, reply |-> <<>>]

\* The locals of a connection goroutine between two hub calls
Rest(l) == [NoLoc EXCEPT !.userID = l.userID, !.fromServer = l.fromServer]

\* The hub after NewHub, but for its chats.
NoChats ==
    /\ chats = [c \in AllChatIDs |-> New]
    /\ chatMux = [c \in AllChatIDs |-> None]
    /\ hubMu = None
    /\ connectedUsers = [u \in UserIDs |-> 0]
    /\ chans = [i \in 1..(MaxChans + 1) |-> [buf |-> <<>>, closed |-> FALSE]]
    /\ nextChan = 1
    /\ dbMessages = [c \in AllChatIDs |-> [s \in 1..(MaxSeq + 1) |-> None]]
    /\ pc = [p \in Procs |-> "idle"]
    /\ loc = [p \in Procs |-> NoLoc]
    /\ panicked = FALSE
    /\ appended = [c \in AllChatIDs |-> <<>>]
    /\ persistFailed = [c \in AllChatIDs |-> FALSE]
    /\ fanout = [u \in UserIDs |-> [c \in AllChatIDs |-> <<>>]]
    /\ joinMsgs = 0
    /\ dropped = 0
    /\ rejected = 0
    /\ removed = <<>>

\* The hub of the two users.
HubInit ==
    /\ NoChats
    /\ hubChats = NewHub(Users)

\* The hub of the three users.
Hub3Init ==
    /\ NoChats
    /\ hubChats = NewHub(UserIDs)

\* Hub.Join up to the loop over h.chats: take the write lock, make the
\* channel and register it (NewConnection calls it).
HubJoin(p, u) ==
    /\ ~panicked
    /\ pc[p] = "idle"
    /\ hubMu = None
    /\ nextChan <= MaxChans
    /\ hubMu' = p
    /\ connectedUsers' = [connectedUsers EXCEPT ![u] = nextChan]
    /\ nextChan' = nextChan + 1
    /\ loc' = [loc EXCEPT ![p] = [NoLoc EXCEPT !.userID = u, !.fromServer = nextChan,
                  !.todo = {c \in hubChats : c = TownHall \/ isUserInDM(u, c)}]]
    /\ pc' = [pc EXCEPT ![p] = "joinChats"]
    /\ UNCHANGED <<chats, chatMux, chans, dbMessages, panicked, appended,
                   persistFailed, fanout, joinMsgs, dropped>>
    /\ UNCHANGED <<hubChats, rejected, removed>>
    /\ UNCHANGED authVars
    /\ UNCHANGED extVars

\* One c.Join(userID) of the loop (Chat.addMember takes the chat lock); the
\* deferred h.mu.Unlock() runs after the last one.
HubJoinChat(p, c) ==
    /\ ~panicked
    /\ pc[p] = "joinChats"
    /\ c \in loc[p].todo
    /\ chatMux[c] = None
    /\ chats' = [chats EXCEPT ![c].Members[loc[p].userID] = TRUE]
    /\ IF loc[p].todo = {c}
       THEN /\ hubMu' = None
            /\ pc' = [pc EXCEPT ![p] = "connected"]
            /\ loc' = [loc EXCEPT ![p] = Rest(@)]
       ELSE /\ loc' = [loc EXCEPT ![p].todo = @ \ {c}]
            /\ UNCHANGED <<hubMu, pc>>
    /\ UNCHANGED <<chatMux, connectedUsers, chans, nextChan, dbMessages, panicked,
                   appended, persistFailed, fanout, joinMsgs, dropped>>
    /\ UNCHANGED <<hubChats, rejected, removed>>
    /\ UNCHANGED authVars
    /\ UNCHANGED extVars

\* Every chat id is taken for a key of h.chats.
AnyChatExists(chatID) == TRUE

\* c, ok := h.chats[msg.ChatID]
ChatExists(chatID) == chatID \in hubChats

\* Hub.Dispatch up to the switch: look the chat up under the read lock and
\* check that a DM includes the sender; Dispatch returns when a check fails.
\* typ is msg.Type.
Dispatch(p, c, typ) ==
    /\ ~panicked
    /\ pc[p] = "connected"
    /\ hubMu = None
    /\ IF ~ChatExists(c) \/ (c # TownHall /\ ~isUserInDM(loc[p].userID, c))
       THEN /\ rejected < MaxRejected
            /\ rejected' = rejected + 1
            /\ UNCHANGED <<pc, loc, joinMsgs>>
       ELSE /\ typ = "send" =>
                 Appends + Cardinality({q \in Procs : pc[q] = "addRecord"}) < MaxSeq
            /\ typ = "join" => joinMsgs < MaxJoinMsgs
            /\ joinMsgs' = IF typ = "join" THEN joinMsgs + 1 ELSE joinMsgs
            /\ pc' = [pc EXCEPT ![p] = IF typ = "send" THEN "addRecord" ELSE "getLast"]
            /\ loc' = [loc EXCEPT ![p].chat = c]
            /\ UNCHANGED rejected
    /\ UNCHANGED <<chats, chatMux, hubMu, connectedUsers, chans, nextChan, dbMessages,
                   panicked, appended, persistFailed, fanout, dropped>>
    /\ UNCHANGED <<hubChats, removed>>
    /\ UNCHANGED authVars
    /\ UNCHANGED extVars

\* What AddRecord leaves of the chat when UpsertMessage fails: the early
\* return comes after c.LastSeq++.
FailedAppend(ch) == [ch EXCEPT !.LastSeq = @ + 1]

\* The early return of AddRecord leaves the chat locked.
NoUnlockOnError(p) == p

\* defer c.mux.Unlock() in AddRecord runs on the early return as well.
UnlockOnError(p) == None

\* Chat.AddRecord, storage.UpsertMessage returning an error.
AddRecordFail(p) ==
    /\ LET c == loc[p].chat IN
       /\ ~panicked
       /\ pc[p] = "addRecord"
       /\ chatMux[c] = None
       /\ Cardinality({x \in AllChatIDs : persistFailed[x]}) < MaxFail
       /\ chats' = [chats EXCEPT ![c] = FailedAppend(@)]
       /\ persistFailed' = [persistFailed EXCEPT ![c] = TRUE]
       /\ pc' = [pc EXCEPT ![p] = "connected"]
       /\ loc' = [loc EXCEPT ![p] = Rest(@)]
       /\ chatMux' = [chatMux EXCEPT ![c] = UnlockOnError(p)]
       /\ UNCHANGED <<hubMu, connectedUsers, chans, nextChan, dbMessages,
                      panicked, appended, fanout, joinMsgs, dropped>>
    /\ UNCHANGED <<hubChats, rejected, removed>>
    /\ UNCHANGED authVars
    /\ UNCHANGED extVars

\* defer c.mux.Unlock() in AddRecord: the goroutine keeps the chat lock while
\* it runs the callbacks.
ReleasedEarly(p) == None

DeferredUnlock(p) == p

\* Chat.AddRecord up to the loop over c.Members: lock, assign the seq,
\* persist, put the record in the ring.  The lock stays held for the loop.
AddRecord(p) ==
    /\ LET c == loc[p].chat
           record == [Seq |-> NextSeq(c), UserID |-> loc[p].userID]
           receivers == OnlineMembers(c)
       IN
       /\ ~panicked
       /\ pc[p] = "addRecord"
       /\ chatMux[c] = None
       /\ dbMessages' = [dbMessages EXCEPT ![c][record.Seq] = record.UserID]
       /\ chats' = [chats EXCEPT ![c] = RingPut([@ EXCEPT !.LastSeq = record.Seq], record)]
       /\ appended' = [appended EXCEPT ![c] = Append(@, record.Seq)]
       /\ IF receivers = {}
          THEN /\ pc' = [pc EXCEPT ![p] = "connected"]
               /\ loc' = [loc EXCEPT ![p] = Rest(@)]
               /\ UNCHANGED chatMux
          ELSE /\ pc' = [pc EXCEPT ![p] = "callback"]
               /\ loc' = [loc EXCEPT ![p].record = record, ![p].pending = receivers]
               /\ chatMux' = [chatMux EXCEPT ![c] = DeferredUnlock(p)]
       /\ UNCHANGED <<hubMu, connectedUsers, chans, nextChan, panicked, persistFailed,
                      fanout, joinMsgs, dropped>>
    /\ UNCHANGED <<hubChats, rejected, removed>>
    /\ UNCHANGED authVars
    /\ UNCHANGED extVars

\* After the callback for the last member AddRecord returns and the deferred
\* c.mux.Unlock() runs.
AfterCallback(p, r) ==
    IF loc[p].pending = {r}
    THEN /\ pc' = [pc EXCEPT ![p] = "connected"]
         /\ loc' = [loc EXCEPT ![p] = Rest(@)]
         /\ chatMux' = [chatMux EXCEPT ![loc[p].chat] = None]
    ELSE /\ pc' = [pc EXCEPT ![p] = "callback"]
         /\ loc' = [loc EXCEPT ![p].pending = @ \ {r}, ![p].receiver = None, ![p].ch = 0]
         /\ UNCHANGED chatMux

\* Hub.handleRecordCallback for receiver r, first half: read the receiver's
\* channel under the hub read lock.
CallbackLookup(p, r) ==
    /\ ~panicked
    /\ pc[p] = "callback"
    /\ r \in loc[p].pending
    /\ hubMu = None
    /\ IF connectedUsers[r] = 0
       THEN AfterCallback(p, r)
       ELSE /\ pc' = [pc EXCEPT ![p] = "callbackSend"]
            /\ loc' = [loc EXCEPT ![p].receiver = r, ![p].ch = connectedUsers[r]]
            /\ UNCHANGED chatMux
    /\ UNCHANGED <<chats, hubMu, connectedUsers, chans, nextChan, dbMessages, panicked,
                   appended, persistFailed, fanout, joinMsgs, dropped>>
    /\ UNCHANGED <<hubChats, rejected, removed>>
    /\ UNCHANGED authVars
    /\ UNCHANGED extVars

\* Hub.handleRecordCallback, second half: the non-blocking send.  A send on
\* a closed channel panics.
CallbackSend(p) ==
    /\ LET ch == loc[p].ch
           r == loc[p].receiver
           c == loc[p].chat
           msg == RecordMsg(c, loc[p].record)
       IN
       /\ ~panicked
       /\ pc[p] = "callbackSend"
       /\ IF chans[ch].closed
          THEN /\ panicked' = TRUE
               /\ UNCHANGED <<chans, fanout, dropped, pc, loc, chatMux>>
          ELSE /\ chans' = [chans EXCEPT ![ch].buf = Deliver(@, msg)]
               /\ fanout' = IF Deliver(chans[ch].buf, msg) # chans[ch].buf
                            THEN [fanout EXCEPT ![r][c] = Append(@, loc[p].record.Seq)]
                            ELSE fanout
               /\ dropped' = IF Deliver(chans[ch].buf, msg) # chans[ch].buf
                             THEN dropped ELSE ch
               /\ AfterCallback(p, r)
               /\ UNCHANGED panicked
       /\ UNCHANGED <<chats, hubMu, connectedUsers, nextChan, dbMessages, appended,
                      persistFailed, joinMsgs>>
    /\ UNCHANGED <<hubChats, rejected, removed>>
    /\ UNCHANGED authVars
    /\ UNCHANGED extVars

\* Number of records a join message asks for (c.GetLastRecords(100)).
JoinHistory == 100

\* Dispatch, case join: Chat.GetLastRecords under the chat read lock.
DispatchGetLast(p) ==
    /\ LET c == loc[p].chat IN
       /\ ~panicked
       /\ pc[p] = "getLast"
       /\ chatMux[c] = None
       /\ IF GetLastRecordsPanics(c, JoinHistory)
          THEN /\ panicked' = TRUE
               /\ UNCHANGED <<pc, loc>>
          ELSE /\ pc' = [pc EXCEPT ![p] = "sendToUser"]
               /\ loc' = [loc EXCEPT ![p].reply = GetLastRecords(c, JoinHistory)]
               /\ UNCHANGED panicked
       /\ UNCHANGED <<chats, chatMux, hubMu, connectedUsers, chans, nextChan, dbMessages,
                      appended, persistFailed, fanout, joinMsgs, dropped>>
    /\ UNCHANGED <<hubChats, rejected, removed>>
    /\ UNCHANGED authVars
    /\ UNCHANGED extVars

\* Hub.sendToUser, first half: read the sender's channel under the read lock.
SendToUserLookup(p) ==
    /\ ~panicked
    /\ pc[p] = "sendToUser"
    /\ hubMu = None
    /\ IF connectedUsers[loc[p].userID] = 0
       THEN /\ pc' = [pc EXCEPT ![p] = "connected"]
            /\ loc' = [loc EXCEPT ![p] = Rest(@)]
       ELSE /\ pc' = [pc EXCEPT ![p] = "sendToUserSend"]
            /\ loc' = [loc EXCEPT ![p].ch = connectedUsers[loc[p].userID]]
    /\ UNCHANGED <<chats, chatMux, hubMu, connectedUsers, chans, nextChan, dbMessages,
                   panicked, appended, persistFailed, fanout, joinMsgs, dropped>>
    /\ UNCHANGED <<hubChats, rejected, removed>>
    /\ UNCHANGED authVars
    /\ UNCHANGED extVars

\* Hub.sendToUser, second half: the non-blocking send of the join reply.
SendToUserSend(p) ==
    /\ LET ch == loc[p].ch
           msg == JoinReply(loc[p].chat, loc[p].reply)
       IN
       /\ ~panicked
       /\ pc[p] = "sendToUserSend"
       /\ IF chans[ch].closed
          THEN /\ panicked' = TRUE
               /\ UNCHANGED <<chans, dropped, pc, loc>>
          ELSE /\ chans' = [chans EXCEPT ![ch].buf = Deliver(@, msg)]
               /\ dropped' = IF Deliver(chans[ch].buf, msg) # chans[ch].buf
                             THEN dropped ELSE ch
               /\ pc' = [pc EXCEPT ![p] = "connected"]
               /\ loc' = [loc EXCEPT ![p] = Rest(@)]
               /\ UNCHANGED panicked
       /\ UNCHANGED <<chats, chatMux, hubMu, connectedUsers, nextChan, dbMessages,
                      appended, persistFailed, fanout, joinMsgs>>
    /\ UNCHANGED <<hubChats, rejected, removed>>
    /\ UNCHANGED authVars
    /\ UNCHANGED extVars

\* Connection.mainLoop, case msg := <-c.fromServer: the connection takes the
\* oldest message of its own channel and writes it to the websocket.
WriteToClient(p) ==
    /\ LET ch == loc[p].fromServer IN
       /\ ~panicked
       /\ pc[p] = "connected"
       /\ chans[ch].buf # <<>>
       /\ chans' = [chans EXCEPT ![ch].buf = Tail(@)]
       /\ UNCHANGED <<chats, chatMux, hubMu, connectedUsers, nextChan, dbMessages, pc, loc,
                      panicked, appended, persistFailed, fanout, joinMsgs, dropped>>
    /\ UNCHANGED <<hubChats, rejected, removed>>
    /\ UNCHANGED authVars
    /\ UNCHANGED extVars

\* Hub.Leave up to the loop over h.chats (the deferred call of
\* Connection.Handle): take the write lock, close and delete the channel
\* registered for the user.
HubLeave(p) ==
    /\ LET u == loc[p].userID
           ch == connectedUsers[u]
       IN
       /\ ~panicked
       /\ pc[p] = "connected"
       /\ hubMu = None
       /\ hubMu' = p
       /\ IF ch # 0
          THEN /\ chans' = [chans EXCEPT ![ch].closed = TRUE]
               /\ connectedUsers' = [connectedUsers EXCEPT ![u] = 0]
          ELSE UNCHANGED <<chans, connectedUsers>>
       /\ pc' = [pc EXCEPT ![p] = "leaveChats"]
       /\ loc' = [loc EXCEPT ![p].todo = hubChats]
       /\ UNCHANGED <<chats, chatMux, nextChan, dbMessages, panicked, appended,
                      persistFailed, fanout, joinMsgs, dropped>>
    /\ UNCHANGED <<hubChats, rejected, removed>>
    /\ UNCHANGED authVars
    /\ UNCHANGED extVars

\* Nothing but connection p holds channel ch: it is not registered in the hub
\* and no other goroutine is about to send on it.
Unreferenced(p, ch) ==
    /\ \A u \in UserIDs : connectedUsers[u] # ch
    /\ \A q \in Procs \ {p} : loc[q].ch # ch /\ loc[q].fromServer # ch

\* One c.Leave(userID) of the loop; the deferred h.mu.Unlock() runs after
\* the last one.  Handle returns then and the messages still buffered in the
\* connection's channel are garbage once nothing else holds the channel.
HubLeaveChat(p, c) ==
    /\ ~panicked
    /\ pc[p] = "leaveChats"
    /\ c \in loc[p].todo
    /\ chatMux[c] = None
    /\ chats' = [chats EXCEPT ![c].Members[loc[p].userID] = FALSE]
    /\ IF loc[p].todo = {c}
       THEN /\ hubMu' = None
            /\ pc' = [pc EXCEPT ![p] = "idle"]
            /\ loc' = [loc EXCEPT ![p] = NoLoc]
            /\ chans' = IF Unreferenced(p, loc[p].fromServer)
                        THEN [chans EXCEPT ![loc[p].fromServer].buf = <<>>]
                        ELSE chans
       ELSE /\ loc' = [loc EXCEPT ![p].todo = @ \ {c}]
            /\ UNCHANGED <<hubMu, pc, chans>>
    /\ UNCHANGED <<chatMux, connectedUsers, nextChan, dbMessages, panicked,
                   appended, persistFailed, fanout, joinMsgs, dropped>>
    /\ UNCHANGED <<hubChats, rejected, removed>>
    /\ UNCHANGED authVars
    /\ UNCHANGED extVars

\* The deleted event RemoveDeletedUser broadcasts.
DeletedMsg(userID) ==
    [Type |-> "deleted", ChatID |-> NoChat, Messages |-> <<>>, via |-> "broadcast",
     UserID |-> userID]

\* The channels registered for the users other than userID
Others(userID) == {connectedUsers[u] : u \in UserIDs \ {userID}} \ {0}

\* Hub.RemoveDeletedUser (DeleteUserHandler calls it after DeleteUser): under
\* the write lock, delete the user's DMs from h.chats, close and delete the
\* user's channel, and send a deleted event to the channel of every other
\* user, dropping it where the channel is full.
RemoveDeletedUser(userID) ==
    /\ LET own == connectedUsers[userID]
           full == {i \in Others(userID) : Len(chans[i].buf) >= QueueCap}
       IN
       /\ ~panicked
       /\ hubMu = None
       /\ Len(removed) < MaxRemoved
       /\ hubChats' = {c \in hubChats : ~isUserInDM(userID, c)}
       /\ connectedUsers' = [connectedUsers EXCEPT ![userID] = 0]
       /\ chans' = [i \in DOMAIN chans |->
                      IF i = own THEN [chans[i] EXCEPT !.closed = TRUE]
                      ELSE IF i \in Others(userID)
                           THEN [chans[i] EXCEPT !.buf = Deliver(@, DeletedMsg(userID))]
                           ELSE chans[i]]
       /\ dropped' = IF full = {} THEN dropped ELSE CHOOSE i \in full : TRUE
       /\ removed' = Append(removed, userID)
       /\ UNCHANGED <<chats, chatMux, hubMu, nextChan, dbMessages, pc, loc, panicked,
                      appended, persistFailed, fanout, joinMsgs, rejected>>
    /\ UNCHANGED authVars
    /\ UNCHANGED extVars

Next ==
    \/ \E p \in Procs : \E u \in ClientsOf(p) : HubJoin(p, u)
    \/ \E p \in Procs, c \in ChatIDs : HubJoinChat(p, c)
    \/ \E p \in Procs, c \in ChatIDs, typ \in {"send", "join"} : Dispatch(p, c, typ)
    \/ \E p \in Procs : AddRecordFail(p)
    \/ \E p \in Procs : AddRecord(p)
    \/ \E p \in Procs, r \in Users : CallbackLookup(p, r)
    \/ \E p \in Procs : CallbackSend(p)
    \/ \E p \in Procs : DispatchGetLast(p)
    \/ \E p \in Procs : SendToUserLookup(p)
    \/ \E p \in Procs : SendToUserSend(p)
    \/ \E p \in Procs : WriteToClient(p)
    \/ \E p \in Procs : HubLeave(p)
    \/ \E p \in Procs, c \in ChatIDs : HubLeaveChat(p, c)

\* The users whose websockets a connection goroutine of the hub of the three
\* users serves: u3 never connects.
ClientsOf3(p) == IF p = "p1" THEN {"u1"} ELSE Users

\* The hub of the three users, with the admin's deletion of a user; the
\* clients send no join message.
Hub3Next ==
    \/ \E p \in Procs : \E u \in ClientsOf3(p) : HubJoin(p, u)
    \/ \E p \in Procs, c \in AllChatIDs : HubJoinChat(p, c)
    \/ \E p \in Procs, c \in AllChatIDs : Dispatch(p, c, "send")
    \/ \E p \in Procs : AddRecord(p)
    \/ \E p \in Procs, r \in UserIDs : CallbackLookup(p, r)
    \/ \E p \in Procs : CallbackSend(p)
    \/ \E p \in Procs : WriteToClient(p)
    \/ \E p \in Procs : HubLeave(p)
    \/ \E p \in Procs, c \in AllChatIDs : HubLeaveChat(p, c)
    \/ \E u \in UserIDs : RemoveDeletedUser(u)

\* -------------------------------------------------------------- connection

\* Client frames pumpMessages reads from the websocket in one run.
MaxRead == 2
\* Server messages mainLoop takes from its delivery channel in one run.
MaxWritten == 1

\* msg.Type of a client frame
ClientMessageTypes == {"join", "leave", "send"}

\* The values sent on c.errorCh
NoErr == "nil"
Canceled == "context canceled"
TransportErr == "transport error"

\* The Connection NewConnection returns, Handle about to wait in its select,
\* with the two workers Handle starts: pumpMessages about to read and mainLoop
\* about to select.  The hub behind the messageHub interface is what it was
\* called with: dispatched are the messages Dispatch got, leaves the calls of
\* Leave.
NewConnection ==
    [handle |-> "select", pump |-> "read", main |-> "select",
     msg |-> None, errorCh |-> <<>>, err |-> NoErr,
     ctxDone |-> FALSE, cancelled |-> FALSE, wsClosed |-> FALSE, wsFailed |-> FALSE,
     read |-> <<>>, dispatched |-> <<>>, written |-> 0, leaves |-> 0,
     returned |-> None, serverClosed |-> FALSE, zeroFrames |-> 0]


\* The caller of Handle cancels the context it passed.
ParentCancel ==
    /\ conn.handle # "returned"
    /\ ~conn.cancelled
    /\ conn' = [conn EXCEPT !.cancelled = TRUE, !.ctxDone = TRUE]
    /\ UNCHANGED <<db, got, logins>>
    /\ UNCHANGED <<hubVars, authVars>>

\* The websocket fails (the client goes away): ReadJSON and WriteJSON return
\* an error from now on.
TransportFail ==
    /\ ~conn.wsFailed
    /\ ~conn.wsClosed
    /\ conn' = [conn EXCEPT !.wsFailed = TRUE]
    /\ UNCHANGED <<db, got, logins>>
    /\ UNCHANGED <<hubVars, authVars>>

\* pumpMessages: c.ws.ReadJSON(&msg) returns a client frame.
PumpRead(typ) ==
    /\ conn.pump = "read"
    /\ ~conn.wsFailed
    /\ ~conn.wsClosed
    /\ Len(conn.read) < MaxRead
    /\ LET msg == [Type |-> typ, n |-> Len(conn.read) + 1]
       IN conn' = [conn EXCEPT !.pump = "send", !.msg = msg, !.read = Append(@, msg)]
    /\ UNCHANGED <<db, got, logins>>
    /\ UNCHANGED <<hubVars, authVars>>

\* pumpMessages: ReadJSON returns an error, pumpMessages returns it and the
\* worker sends it on c.errorCh.
PumpReadErr ==
    /\ conn.pump = "read"
    /\ conn.wsFailed \/ conn.wsClosed
    /\ conn' = [conn EXCEPT !.pump = "cancel", !.errorCh = Append(@, TransportErr)]
    /\ UNCHANGED <<db, got, logins>>
    /\ UNCHANGED <<hubVars, authVars>>

\* pumpMessages: case <-ctx.Done() while the frame waits for mainLoop; the
\* worker sends ctx.Err() on c.errorCh.
PumpCtxDone ==
    /\ conn.pump = "send"
    /\ conn.ctxDone
    /\ conn' = [conn EXCEPT !.pump = "cancel", !.msg = None,
                            !.errorCh = Append(@, Canceled)]
    /\ UNCHANGED <<db, got, logins>>
    /\ UNCHANGED <<hubVars, authVars>>

\* Connection.processClientMessage: a send is handed to c.hub.Dispatch, the
\* case of a join is empty and no other type has a case.
processClientMessage(dispatched, msg) ==
    IF msg.Type = "send" THEN Append(dispatched, msg) ELSE dispatched

\* mainLoop: case msg := <-c.fromClient, the unbuffered channel pumpMessages
\* sends on; processClientMessage returns nil.
MainFromClient ==
    /\ conn.pump = "send"
    /\ conn.main = "select"
    /\ conn' = [conn EXCEPT !.pump = "read", !.msg = None,
                            !.dispatched = processClientMessage(@, conn.msg)]
    /\ UNCHANGED <<db, got, logins>>
    /\ UNCHANGED <<hubVars, authVars>>

\* mainLoop: case msg := <-c.fromServer and c.ws.WriteJSON(msg); mainLoop
\* returns the error of a failed write and the worker sends it on c.errorCh.
MainFromServer ==
    /\ conn.main = "select"
    /\ conn.written < MaxWritten
    /\ IF conn.wsFailed \/ conn.wsClosed
       THEN conn' = [conn EXCEPT !.main = "cancel", !.errorCh = Append(@, TransportErr)]
       ELSE conn' = [conn EXCEPT !.written = @ + 1,
                                 !.zeroFrames = IF conn.serverClosed THEN @ + 1 ELSE @]
    /\ UNCHANGED <<db, got, logins>>
    /\ UNCHANGED <<hubVars, authVars>>

\* The hub closes c.fromServer, empty at that moment, from outside the
\* connection: Hub.Leave(userID) of another connection of the same user.
\* From then on the receive of mainLoop yields the zero ServerMessage at once.
FromServerClosed ==
    /\ ~conn.serverClosed
    /\ conn.leaves = 0
    /\ conn' = [conn EXCEPT !.serverClosed = TRUE]
    /\ UNCHANGED <<db, got, logins>>
    /\ UNCHANGED <<hubVars, authVars>>

\* mainLoop: case <-ctx.Done(), return nil; the worker sends nil on c.errorCh.
MainCtxDone ==
    /\ conn.main = "select"
    /\ conn.ctxDone
    /\ conn' = [conn EXCEPT !.main = "cancel", !.errorCh = Append(@, NoErr)]
    /\ UNCHANGED <<db, got, logins>>
    /\ UNCHANGED <<hubVars, authVars>>

\* The cancel() a worker calls after its send on c.errorCh; the worker is
\* done then.
PumpCancel ==
    /\ conn.pump = "cancel"
    /\ conn' = [conn EXCEPT !.pump = "done", !.ctxDone = TRUE]
    /\ UNCHANGED <<db, got, logins>>
    /\ UNCHANGED <<hubVars, authVars>>

MainCancel ==
    /\ conn.main = "cancel"
    /\ conn' = [conn EXCEPT !.main = "done", !.ctxDone = TRUE]
    /\ UNCHANGED <<db, got, logins>>
    /\ UNCHANGED <<hubVars, authVars>>

\* Handle: select { case err = <-c.errorCh: case <-ctx.Done(): }.  When both
\* cases are ready the runtime picks one of them.
HandleSelect ==
    /\ conn.handle = "select"
    /\ \/ /\ conn.errorCh # <<>>
          /\ conn' = [conn EXCEPT !.handle = "close", !.err = Head(conn.errorCh),
                                  !.errorCh = Tail(@)]
       \/ /\ conn.ctxDone
          /\ conn' = [conn EXCEPT !.handle = "close"]
    /\ UNCHANGED <<db, got, logins>>
    /\ UNCHANGED <<hubVars, authVars>>

\* Handle: c.ws.Close()
HandleClose ==
    /\ conn.handle = "close"
    /\ conn' = [conn EXCEPT !.handle = "wait", !.wsClosed = TRUE]
    /\ UNCHANGED <<db, got, logins>>
    /\ UNCHANGED <<hubVars, authVars>>

\* Handle: wg.Wait() returns once both workers are done; Handle returns err
\* unless it is nil or context.Canceled, and the deferred function calls
\* c.hub.Leave.
HandleReturn ==
    /\ conn.handle = "wait"
    /\ conn.pump = "done"
    /\ conn.main = "done"
    /\ conn' = [conn EXCEPT !.handle = "returned",
                            !.returned = IF conn.err # NoErr /\ conn.err # Canceled
                                         THEN conn.err ELSE NoErr,
                            !.leaves = @ + 1]
    /\ UNCHANGED <<db, got, logins>>
    /\ UNCHANGED <<hubVars, authVars>>

\* One connection: its transport, the caller's context and its three goroutines.
ConnNext ==
    \/ ParentCancel
    \/ TransportFail
    \/ \E typ \in ClientMessageTypes : PumpRead(typ)
    \/ PumpReadErr
    \/ PumpCtxDone
    \/ MainFromClient
    \/ MainFromServer
    \/ FromServerClosed
    \/ MainCtxDone
    \/ PumpCancel
    \/ MainCancel
    \/ HandleSelect
    \/ HandleClose
    \/ HandleReturn

\* ----------------------------------------------------------------- storage

\* AddRecord calls on a chat that is used without the hub, in one run.
MaxAppends == 3
\* The largest seq a caller hands to the storage or to a range read.
MaxStoreSeq == 4
\* The largest seq of the messages handed to UpsertMessage directly.
MaxUpsertSeq == 3
\* Stands for 2^64, the number of 8-byte keys; every seq of the model is far
\* below it.
Uint64Wrap == 1024

\* The seqs callers pass: 0 is the zero value of a missing parameter.
StoreSeqs == 0..MaxStoreSeq

\* The session token hashes handed to the storage.
StoreHashes == {"h1", "h2"}

\* The chat bucket holds no record under a chat id.
Absent == -1

\* HTTP handler goroutines inside Login at the same time.
LoginProcs == {"l1", "l2"}

\* No Login call: the goroutine has not entered Login.
NoLogin == [pc |-> "idle", username |-> None, password |-> "", totp |-> 0,
            attempts |-> 0, counted |-> FALSE]

\* tx.Bucket(bucketTokens) == nil: the file has no legacy bucket "tokens".
NoBucket == [exists |-> FALSE, entries |-> {}]

\* NewBboltStorage on a fresh file: the buckets exist and are empty.  chats
\* maps a chat id to DBChat.LastSeq, messages a chat id to the messages of
\* its sub-bucket, tokens is the set of the pairs <<key, DBToken>> of tokens_v2.
NewBboltStorage ==
    [chats |-> [c \in AllChatIDs |-> Absent],
     messages |-> [c \in AllChatIDs |-> {}],
     tokens |-> {},
     legacy |-> NoBucket]

\* What the last call of the storage or of Chat.GetRecords returned.
NoResult == [op |-> "none", args |-> <<>>, err |-> FALSE, panic |-> FALSE, result |-> <<>>]

\* binary.BigEndian.PutUint64(key, uint64(seq)): the keys order as unsigned
\* numbers do.
SeqKey(seq) == IF seq < 0 THEN seq + Uint64Wrap ELSE seq

\* The transaction of a db.Update whose function returns an error commits.
NoRollback(before, tx) == tx

\* db.Update rolls the transaction back when its function returns an error.
Rollback(before, tx) == before

\* BboltStorage.UpsertMessage returns an error: the chat bucket has no record
\* of the chat.
UpsertMessageErr(d, chatID) == d.chats[chatID] = Absent

\* BboltStorage.UpsertMessage: one transaction that puts the message under
\* its seq key in the sub-bucket of the chat and raises DBChat.LastSeq to the
\* seq when the seq is larger.
UpsertMessage(d, chatID, message) ==
    LET put == [d EXCEPT !.messages[chatID] =
                    {m \in @ : SeqKey(m.Seq) # SeqKey(message.Seq)} \cup {message}]
    IN IF UpsertMessageErr(d, chatID)
       THEN Rollback(d, put)
       ELSE [put EXCEPT !.chats[chatID] = IF message.Seq > @ THEN message.Seq ELSE @]

\* BboltStorage.UpsertChat as createChat and the tests call it, LastSeq zero.
UpsertChat(d, chatID) == [d EXCEPT !.chats[chatID] = 0]

\* The cursor stops before maxKey.
KeyBelow(k, minKey, maxKey) == minKey <= k /\ k < maxKey

\* c.Seek(minKey) ... bytes.Compare(k, maxKey) <= 0
KeyInRange(k, minKey, maxKey) == minKey <= k /\ k <= maxKey

\* The messages of a set in the order of their keys (the cursor's order).
RECURSIVE InKeyOrder(_)
InKeyOrder(S) ==
    IF S = {} THEN <<>>
    ELSE LET first == CHOOSE x \in S : \A y \in S : SeqKey(x.Seq) <= SeqKey(y.Seq)
         IN <<first>> \o InKeyOrder(S \ {first})

\* BboltStorage.ListMessages(chatID, from, to)
ListMessages(d, chatID, from, to) ==
    InKeyOrder({m \in d.messages[chatID] :
                   KeyInRange(SeqKey(m.Seq), SeqKey(from), SeqKey(to))})

\* DBToken.Key
TokenKey(dbToken) == dbToken.UserID

\* b.Put(key, value)
Put(bucket, key, value) == {e \in bucket : e[1] # key} \cup {<<key, value>>}

\* b.Delete(key)
Delete(bucket, key) == {e \in bucket : e[1] # key}

\* BboltStorage.UpsertToken(userID, tokenHash)
UpsertToken(d, userID, tokenHash) ==
    LET dbToken == [UserID |-> userID, Token |-> tokenHash]
    IN [d EXCEPT !.tokens = Put(@, TokenKey(dbToken), dbToken)]

\* BboltStorage.DeleteToken(tokenHash)
DeleteToken(d, tokenHash) == [d EXCEPT !.tokens = Delete(@, tokenHash)]

\* BboltStorage.ListTokens: tokens[dbToken.Token] = dbToken.UserID over the
\* bucket, as the set of the pairs <<token hash, userID>>.
ListTokens(d) == {<<e[2].Token, e[2].UserID>> : e \in d.tokens}

\* Chat.GetRecords(from, to) of a chat with storage: the part before memFrom
\* from ListMessages, the rest copied from the ring in one piece or in two.
GetRecords(c, from, to) ==
    LET ch == chats[c]
        n == Len(ch.Records)
        memFrom == IF n = 0 THEN ch.LastSeq + 1 ELSE ch.FirstSeq
        storeTo == IF to > memFrom THEN memFrom ELSE to
        stored == IF from < memFrom THEN ListMessages(db, c, from, storeTo - 1) ELSE <<>>
        mFrom == IF from < memFrom THEN memFrom ELSE from
        inMemory == to > memFrom /\ mFrom < to /\ mFrom >= ch.FirstSeq
        count == to - mFrom
        head == IF n = MaxRecords THEN (ch.LastIndex + 1) % MaxRecords ELSE 0
        offset == mFrom - ch.FirstSeq
        startIdx == (head + offset) % n
        n1 == n - startIdx
    IN IF ch.LastSeq = 0 THEN [panic |-> FALSE, records |-> <<>>]
       ELSE IF ~inMemory THEN [panic |-> FALSE, records |-> stored]
       ELSE IF n = 0 \/ (startIdx + count > n /\ count - n1 > Cap(n))
            THEN [panic |-> TRUE, records |-> <<>>]
            ELSE [panic |-> FALSE,
                  records |-> stored \o
                      (IF startIdx + count <= n
                       THEN SubSeq(ch.Records, startIdx + 1, startIdx + count)
                       ELSE SubSeq(ch.Records, startIdx + 1, n)
                                \o SliceTo(ch.Records, count - n1))]

\* createChat's h.storage.UpsertChat for a chat that has no record yet.
CreateChat(c) ==
    /\ db.chats[c] = Absent
    /\ db' = UpsertChat(db, c)
    /\ got' = [NoResult EXCEPT !.op = "UpsertChat", !.args = <<c>>]
    /\ UNCHANGED <<conn, logins>>
    /\ UNCHANGED <<hubVars, authVars>>

\* Chat.AddRecord on a chat no member of which is connected (the chat of
\* TestChat_Persistence): the seq, UpsertMessage, the ring.  The storage fails
\* when the chat has no record, or on its own (ioErr).
ChatAddRecord(c, u, ioErr) ==
    /\ LET record == [Seq |-> NextSeq(c), UserID |-> u] IN
       /\ Appends < MaxAppends
       /\ chatMux[c] = None
       /\ OnlineMembers(c) = {}
       /\ ioErr => Cardinality({x \in AllChatIDs : persistFailed[x]}) < MaxFail
       /\ IF ioErr \/ UpsertMessageErr(db, c)
          THEN /\ chats' = [chats EXCEPT ![c] = FailedAppend(@)]
               /\ persistFailed' = [persistFailed EXCEPT ![c] = TRUE]
               /\ db' = IF ioErr THEN db ELSE UpsertMessage(db, c, record)
               /\ UNCHANGED appended
          ELSE /\ chats' = [chats EXCEPT ![c] = RingPut([@ EXCEPT !.LastSeq = record.Seq], record)]
               /\ appended' = [appended EXCEPT ![c] = Append(@, record.Seq)]
               /\ db' = UpsertMessage(db, c, record)
               /\ UNCHANGED persistFailed
       /\ got' = [NoResult EXCEPT !.op = "AddRecord", !.args = <<c, record>>,
                                  !.err = ioErr \/ UpsertMessageErr(db, c)]
    /\ UNCHANGED <<hubChats, chatMux, hubMu, connectedUsers, chans, nextChan, dbMessages,
                   pc, loc, panicked, fanout, joinMsgs, dropped, rejected, removed>>
    /\ UNCHANGED <<conn, logins>>
    /\ UNCHANGED authVars

\* A call of Chat.GetRecords(from, to) with from <= to.
GetRecordsCall(c, from, to) ==
    /\ from <= to
    /\ LET r == GetRecords(c, from, to)
       IN got' = [NoResult EXCEPT !.op = "GetRecords", !.args = <<c, from, to>>,
                                  !.panic = r.panic, !.result = r.records]
    /\ UNCHANGED <<conn, db, logins>>
    /\ UNCHANGED <<hubVars, authVars>>

\* A call of BboltStorage.ListMessages.
ListMessagesCall(c, from, to) ==
    /\ got' = [NoResult EXCEPT !.op = "ListMessages", !.args = <<c, from, to>>,
                               !.result = ListMessages(db, c, from, to)]
    /\ UNCHANGED <<conn, db, logins>>
    /\ UNCHANGED <<hubVars, authVars>>

\* A call of BboltStorage.UpsertChat.
UpsertChatCall(c) ==
    /\ db' = UpsertChat(db, c)
    /\ got' = [NoResult EXCEPT !.op = "UpsertChat", !.args = <<c>>]
    /\ UNCHANGED <<conn, logins>>
    /\ UNCHANGED <<hubVars, authVars>>

\* A call of BboltStorage.UpsertMessage.
UpsertMessageCall(c, seq, u) ==
    /\ LET message == [Seq |-> seq, UserID |-> u] IN
       /\ db' = UpsertMessage(db, c, message)
       /\ got' = [NoResult EXCEPT !.op = "UpsertMessage", !.args = <<c, message>>,
                                  !.err = UpsertMessageErr(db, c)]
    /\ UNCHANGED <<conn, logins>>
    /\ UNCHANGED <<hubVars, authVars>>

\* A call of BboltStorage.UpsertToken.  The hash is that of a token
\* generateToken drew at random for the user: no other user has it.
UpsertTokenCall(u, h) ==
    /\ \A e \in db.tokens : e[2].Token = h => e[2].UserID = u
    /\ db' = UpsertToken(db, u, h)
    /\ got' = [NoResult EXCEPT !.op = "UpsertToken", !.args = <<u, h>>]
    /\ UNCHANGED <<conn, logins>>
    /\ UNCHANGED <<hubVars, authVars>>

\* A call of BboltStorage.DeleteToken.
DeleteTokenCall(h) ==
    /\ db' = DeleteToken(db, h)
    /\ got' = [NoResult EXCEPT !.op = "DeleteToken", !.args = <<h>>]
    /\ UNCHANGED <<conn, logins>>
    /\ UNCHANGED <<hubVars, authVars>>

\* A call of BboltStorage.ListTokens.
ListTokensCall ==
    /\ got' = [NoResult EXCEPT !.op = "ListTokens", !.result = ListTokens(db)]
    /\ UNCHANGED <<conn, db, logins>>
    /\ UNCHANGED <<hubVars, authVars>>

\* The raw session tokens a legacy bucket holds.
RawTokens == {"r1", "r2"}

\* The hasher NewAuthService hands to MigrateTokens (as.hashToken).
Hasher(token) == IF token = "r1" THEN "h1" ELSE "h2"

\* The legacy buckets a file written by the old schema holds: at most one
\* entry per user, Key = UserID, Value = DBToken{UserID, raw token}; ok tells
\* whether the value unmarshals.
LegacyEntries ==
    {<<u, [UserID |-> u, Token |-> r, ok |-> ok]>> :
        u \in Users, r \in RawTokens, ok \in BOOLEAN}
LegacyBuckets ==
    {E \in SUBSET LegacyEntries :
        /\ \A e1, e2 \in E : e1[1] = e2[1] => e1 = e2
        /\ \A e1, e2 \in E : e1[2].Token = e2[2].Token => e1 = e2}

\* The Puts of the ForEach of MigrateTokens over a set of legacy entries.
RECURSIVE PutMigrated(_, _)
PutMigrated(bucket, entries) ==
    IF entries = {} THEN bucket
    ELSE LET e == CHOOSE x \in entries : TRUE
             newToken == [UserID |-> e[2].UserID, Token |-> Hasher(e[2].Token)]
         IN PutMigrated(Put(bucket, TokenKey(newToken), newToken), entries \ {e})

\* BboltStorage.MigrateTokens returns an error: a value of the legacy bucket
\* does not unmarshal.
MigrateTokensErr(d) == d.legacy.exists /\ \E e \in d.legacy.entries : ~e[2].ok

\* BboltStorage.MigrateTokens: one transaction.
MigrateTokens(d) ==
    IF ~d.legacy.exists THEN d
    ELSE IF MigrateTokensErr(d)
         THEN Rollback(d, [d EXCEPT !.tokens =
                  PutMigrated(@, {e \in d.legacy.entries : e[2].ok})])
         ELSE [d EXCEPT !.tokens = PutMigrated(@, d.legacy.entries),
                        !.legacy = NoBucket]

\* A call of BboltStorage.MigrateTokens, as NewAuthService makes on every start.
MigrateTokensCall ==
    /\ db' = MigrateTokens(db)
    /\ got' = [NoResult EXCEPT !.op = "MigrateTokens", !.err = MigrateTokensErr(db)]
    /\ UNCHANGED <<conn, logins>>
    /\ UNCHANGED <<hubVars, authVars>>

\* The storage calls of the auth service on the token buckets.
MigrateNext ==
    \/ MigrateTokensCall
    \/ \E u \in Users, h \in StoreHashes : UpsertTokenCall(u, h)
    \/ \E h \in StoreHashes : DeleteTokenCall(h)
    \/ ListTokensCall

\* A file the old schema wrote, or a fresh one, opened by NewBboltStorage.
MigExtInit ==
    /\ conn = NewConnection
    /\ got = NoResult
    /\ logins = [l \in LoginProcs |-> NoLogin]
    /\ db \in {NewBboltStorage}
              \cup {[NewBboltStorage EXCEPT !.legacy = [exists |-> TRUE, entries |-> E]] :
                        E \in LegacyBuckets}

\* Hub.restoreChat for the chat ListChats returned with its stored LastSeq:
\* the messages from LastSeq - chatMaxRecords + 1 (at least 1) to LastSeq are
\* appended to the ring; when ListMessages fails the chat is registered empty.
restoreChat(d, c, listErr) ==
    LET lastSeq == d.chats[c]
        from == IF lastSeq - MaxRecords + 1 < 1 THEN 1 ELSE lastSeq - MaxRecords + 1
        msgs == ListMessages(d, c, from, lastSeq)
    IN IF lastSeq > 0 /\ ~listErr /\ msgs # <<>>
       THEN [New EXCEPT !.Records = msgs,
                        !.FirstSeq = msgs[1].Seq,
                        !.LastSeq = msgs[Len(msgs)].Seq,
                        !.LastIndex = Len(msgs) - 1]
       ELSE New

\* The process starts again: NewHub restores the chat from the storage (in a
\* run, until more than MaxAppends records were appended).
Restore(c, listErr) ==
    /\ db.chats[c] # Absent
    /\ Len(appended[c]) <= MaxAppends
    /\ chatMux[c] = None
    /\ chats' = [chats EXCEPT ![c] = restoreChat(db, c, listErr)]
    /\ got' = [NoResult EXCEPT !.op = "restoreChat", !.args = <<c, db.chats[c]>>,
                               !.err = listErr]
    /\ UNCHANGED <<hubChats, chatMux, hubMu, connectedUsers, chans, nextChan, dbMessages,
                   pc, loc, panicked, appended, persistFailed, fanout, joinMsgs, dropped,
                   rejected, removed>>
    /\ UNCHANGED <<conn, db, logins>>
    /\ UNCHANGED authVars

\* The chat a Chat is used for without the hub, and the chat of the storage calls.
StoreChat == TownHall

\* A chat over the storage: appends and range reads.
ChatNext ==
    \/ CreateChat(StoreChat)
    \/ \E u \in Users, ioErr \in BOOLEAN : ChatAddRecord(StoreChat, u, ioErr)
    \/ \E from, to \in StoreSeqs : GetRecordsCall(StoreChat, from, to)
    \/ \E to \in StoreSeqs : ListMessagesCall(StoreChat, 1, to)

\* A chat over the storage across restarts of the process.
RestoreNext ==
    \/ CreateChat(StoreChat)
    \/ \E u \in Users, ioErr \in BOOLEAN : ChatAddRecord(StoreChat, u, ioErr)
    \/ \E listErr \in BOOLEAN : Restore(StoreChat, listErr)
    \/ \E from, to \in StoreSeqs : GetRecordsCall(StoreChat, from, to)

\* The calls of the storage.
StoreNext ==
    \/ UpsertChatCall(StoreChat)
    \/ \E seq \in 1..MaxUpsertSeq : UpsertMessageCall(StoreChat, seq, "u1")
    \/ \E from, to \in 0..MaxUpsertSeq : ListMessagesCall(StoreChat, from, to)
    \/ \E u \in Users, h \in StoreHashes : UpsertTokenCall(u, h)
    \/ \E h \in StoreHashes : DeleteTokenCall(h)
    \/ ListTokensCall

\* The state outside the hub and the auth service after construction.
ExtInit ==
    /\ conn = NewConnection
    /\ db = NewBboltStorage
    /\ got = NoResult
    /\ logins = [l \in LoginProcs |-> NoLogin]

\* -------------------------------------------------------------------- auth

\* Session and registration tokens generateToken hands out in one run.
MaxTokens == 4
\* Failed attempts after which the model stops counting further failures.
MaxAttempts == 4
\* Number of distinct TOTP codes (trunc % 1e6 in GenerateTOTP).
NumCodes == 5
\* Config.TokenExpiry in seconds (DefaultTokenExpiry is 24h).
TokenExpiry == 450

\* The instants, in unix seconds, at which the clock as.now() is read.
Instants == {30, 510}

\* The passwords users register with, and one nobody registers with.
Passwords == {"pw1"}
WrongPassword == "pw2"
Presented == Passwords \cup {WrongPassword}
\* generateTOTPSecret: 20 random bytes, never the secret the user has
NewSecret(current) == IF current = "s1" THEN "s2" ELSE "s1"
\* Storage calls that return an error in one run.
MaxStorageFail == 1
\* Steps of the auth service in one run; failed logins and the locked half of
\* a completion already in flight are not counted.
MaxOps == 4
\* HTTP handler goroutines inside GetUserID or Logoff.
AuthProcs == {"a1"}

Tokens == 1..(MaxTokens + 1)

\* hashToken: HMAC-SHA-512 of the token under the secret
hashToken(token) == <<"hmac", token>>

Hashes == {hashToken(t) : t \in Tokens}

\* hashPassword: base64 of the HMAC-SHA-512 of username + password
hashPassword(username, password) == <<"hmac", username, password>>

\* The key base32 decodes the secret to; the empty secret of a deleted user
\* decodes without error to the empty key.
SecretNum(secret) == IF secret = "s1" THEN 0 ELSE IF secret = "s2" THEN 2 ELSE 1

\* GenerateTOTP(secret, t): a code determined by the key and t.Unix() / 30
GenerateTOTP(secret, t) == (SecretNum(secret) + (t \div 30)) % NumCodes

\* The time steps checkTOTP tries: i := -1; i <= 1
Window(secret, totp, t) ==
    \E i \in {-1, 0, 1} : totp = GenerateTOTP(secret, t + 30 * i)

\* AuthService.checkTOTP
checkTOTP(secret, totp, lastTOTP) ==
    /\ totp # lastTOTP
    /\ Window(secret, totp, now)

NoUser == [Status |-> "none", PasswordHash |-> <<>>, TOTPSecret |-> "",
           LastTOTP |-> -1, FailedLoginAttempts |-> 0, LastAttemptTime |-> 0]

NoCall == [op |-> "idle", token |-> 0, userID |-> None, totp |-> 0]

\* UserCredentials.IncrementFailedLoginAttempts
IncrementFailedLoginAttempts(user) ==
    [user EXCEPT !.FailedLoginAttempts = @ + 1, !.LastAttemptTime = now]

ThrottledFrom3(user) ==
    /\ user.FailedLoginAttempts >= 3
    /\ now < user.LastAttemptTime
               + 30 * (user.FailedLoginAttempts * user.FailedLoginAttempts)

\* The throttle of Login without its expiry
ThrottledNoExpiry(user) == user.FailedLoginAttempts > 3

\* The throttling check of Login
Throttled(user) ==
    /\ user.FailedLoginAttempts > 3
    /\ now < user.LastAttemptTime
               + 30 * (user.FailedLoginAttempts * user.FailedLoginAttempts)

\* The message of the LoginResponse Login returns ("" on success), the
\* checks in the order of the code.
LoginResult(username, password, totp) ==
    IF username \notin Users \/ users[username].Status = "none"
        THEN "Login failed"
    ELSE IF users[username].Status # "active"
        THEN "Login failed"
    ELSE IF Throttled(users[username])
        THEN "Too many failed login attempts"
    ELSE IF users[username].PasswordHash # hashPassword(username, password)
        THEN "Login failed"
    ELSE IF users[username].LastTOTP = -1
        THEN "User setup not completed"
    ELSE IF users[username].LastTOTP = totp
        THEN "Login failed"
    ELSE IF ~checkTOTP(users[username].TOTPSecret, totp, users[username].LastTOTP)
        THEN "Login failed"
    ELSE ""

\* The failures after which Login calls user.IncrementFailedLoginAttempts
CountsAsFailure(username, password, totp) ==
    /\ username \in Users
    /\ users[username].Status = "active"
    /\ ~Throttled(users[username])
    /\ LoginResult(username, password, totp) = "Login failed"

\* The user whose credentials the storage holds when NewAuthService loads
\* it: registered, with no session.
Seeded == "u1"
SeededUser == [Status |-> "active", PasswordHash |-> hashPassword(Seeded, "pw1"),
               TOTPSecret |-> "s1", LastTOTP |-> 0,
               FailedLoginAttempts |-> 0, LastAttemptTime |-> 0]

AuthInit ==
    /\ users = [u \in Users |-> IF u = Seeded THEN SeededUser ELSE NoUser]
    /\ liveTokens = [h \in Hashes |-> None]
    /\ liveSince = [h \in Hashes |-> 0]
    /\ userTokens = [u \in Users |-> <<>>]
    /\ registrationTokens = [t \in Tokens |-> None]
    /\ dbTokens = [h \in Hashes |-> None]
    /\ nextToken = 1
    /\ now = 30
    /\ calls = [a \in AuthProcs |-> NoCall]
    /\ usedTOTP = [u \in Users |-> {}]
    /\ deletedOK = [u \in Users |-> FALSE]
    /\ storageFailed = 0
    /\ ops = 0
    /\ completedWith = {}
    /\ revokedHashes = {}

Init == HubInit /\ AuthInit /\ ExtInit

Range(s) == {s[i] : i \in 1..Len(s)}

\* slices.DeleteFunc(userTokens, func(t) bool { return t == tokenHash })
DeleteHash(list, tokenHash) == SelectSeq(list, LAMBDA t : t # tokenHash)

Codes == 0..(NumCodes - 1)

\* The registration tokens of the cache, the user's among them
KeepRegistrationTokens(userID) == registrationTokens

\* The registration tokens of the cache that are not the user's
DropRegistrationTokens(userID) ==
    [t \in Tokens |->
        IF registrationTokens[t] = userID THEN None ELSE registrationTokens[t]]

\* n storage calls of the step return an error.
StorageErrors(n) ==
    /\ storageFailed + n <= MaxStorageFail
    /\ storageFailed' = storageFailed + n

Bit(b) == IF b THEN 0 ELSE 1

\* One more step of the auth service that is not a failed login.
Op ==
    /\ ops < MaxOps
    /\ ops' = ops + 1

\* AddUser for a new username, or for a user who has not finished the
\* registration (LastTOTP = -1): a fresh registration token replaces the
\* user's old ones.  A storage failure returns before memory is touched.
AddUser(username) ==
    /\ nextToken <= MaxTokens
    /\ users[username].LastTOTP = -1
    /\ users' = IF users[username].Status = "none"
                THEN [users EXCEPT ![username] =
                        [NoUser EXCEPT !.Status = "created",
                                       !.TOTPSecret = NewSecret("")]]
                ELSE users
    /\ registrationTokens' =
         [DropRegistrationTokens(username) EXCEPT ![nextToken] = username]
    /\ nextToken' = nextToken + 1
    /\ deletedOK' = [deletedOK EXCEPT ![username] = FALSE]
    /\ UNCHANGED <<liveTokens, liveSince, userTokens, dbTokens, now, calls,
                   usedTOTP, storageFailed>>
    /\ Op
    /\ UNCHANGED completedWith
    /\ UNCHANGED revokedHashes
    /\ UNCHANGED hubVars
    /\ UNCHANGED extVars

\* The session token CompleteRegistration and Login issue: liveTokens.Set,
\* the append to userTokens, storage.UpsertToken (its error is only logged).
IssueToken(userID, persisted) ==
    /\ nextToken <= MaxTokens
    /\ liveTokens' = [liveTokens EXCEPT ![hashToken(nextToken)] = userID]
    /\ liveSince' = [liveSince EXCEPT ![hashToken(nextToken)] = now]
    /\ userTokens' = [userTokens EXCEPT ![userID] = Append(@, hashToken(nextToken))]
    /\ dbTokens' = IF persisted
                   THEN [dbTokens EXCEPT ![hashToken(nextToken)] = userID]
                   ELSE dbTokens
    /\ nextToken' = nextToken + 1

\* CompleteRegistration under users.Lock(), for the user the token lookup
\* returned: the checks of LastTOTP and of the code, the new credentials,
\* storage.UpsertCredentials (on its error the call returns "Internal error"
\* with the user changed in memory), registrationTokens.Del, the session token.
Complete(userID, token, password, totp, credsPersisted, tokenPersisted) ==
    LET user == users[userID]
    IN /\ user.LastTOTP = -1
       /\ checkTOTP(user.TOTPSecret, totp, user.LastTOTP)
       /\ users' = [users EXCEPT ![userID] =
                      [user EXCEPT !.PasswordHash = hashPassword(userID, password),
                                   !.LastTOTP = 0,
                                   !.Status = "active"]]
       /\ IF credsPersisted
          THEN /\ registrationTokens' = [registrationTokens EXCEPT ![token] = None]
               /\ IssueToken(userID, tokenPersisted)
               /\ StorageErrors(Bit(tokenPersisted))
               /\ completedWith' = completedWith \cup {token}
          ELSE /\ tokenPersisted
               /\ StorageErrors(1)
               /\ UNCHANGED <<registrationTokens, liveTokens, liveSince,
                              userTokens, dbTokens, nextToken, completedWith>>

\* A CompleteRegistration call no other call interleaves with.
CompleteRegistration(token, password, totp, credsPersisted, tokenPersisted) ==
    /\ registrationTokens[token] # None
    /\ Complete(registrationTokens[token], token, password, totp,
                credsPersisted, tokenPersisted)
    /\ UNCHANGED <<now, calls, usedTOTP, deletedOK>>
    /\ Op
    /\ UNCHANGED revokedHashes
    /\ UNCHANGED hubVars
    /\ UNCHANGED extVars

\* CompleteRegistration up to registrationTokens.Get(req.Token), which runs
\* before users.Lock().
CompleteRegistrationGet(a, token, totp) ==
    /\ calls[a] = NoCall
    /\ registrationTokens[token] # None
    /\ calls' = [calls EXCEPT ![a] =
                   [op |-> "register", token |-> token,
                    userID |-> registrationTokens[token], totp |-> totp]]
    /\ UNCHANGED <<users, liveTokens, liveSince, userTokens, registrationTokens,
                   dbTokens, nextToken, now, usedTOTP, deletedOK, storageFailed,
                   completedWith>>
    /\ Op
    /\ UNCHANGED revokedHashes
    /\ UNCHANGED hubVars
    /\ UNCHANGED extVars

\* The rest of that call, from users.Lock() on; a call the checks reject
\* returns with nothing changed.
CompleteRegistrationLocked(a, password, credsPersisted, tokenPersisted) ==
    /\ calls[a].op = "register"
    /\ LET userID == calls[a].userID
       IN IF /\ users[userID].LastTOTP = -1
             /\ checkTOTP(users[userID].TOTPSecret, calls[a].totp, -1)
          THEN Complete(userID, calls[a].token, password, calls[a].totp,
                        credsPersisted, tokenPersisted)
          ELSE /\ credsPersisted /\ tokenPersisted
               /\ UNCHANGED <<users, registrationTokens, liveTokens, liveSince,
                              userTokens, dbTokens, nextToken, storageFailed,
                              completedWith>>
    /\ calls' = [calls EXCEPT ![a] = NoCall]
    /\ UNCHANGED <<now, usedTOTP, deletedOK, ops>>
    /\ UNCHANGED revokedHashes
    /\ UNCHANGED hubVars
    /\ UNCHANGED extVars

Login(username, password, totp, tokenPersisted) ==
    /\ LET user == users[username]
       IN IF LoginResult(username, password, totp) = ""
          THEN /\ IssueToken(username, tokenPersisted)
               /\ StorageErrors(Bit(tokenPersisted))
               /\ Op
               /\ users' = [users EXCEPT ![username] =
                              [user EXCEPT !.FailedLoginAttempts = 0,
                                           !.LastAttemptTime = now,
                                           !.LastTOTP = totp]]
               /\ usedTOTP' = [usedTOTP EXCEPT ![username] = @ \cup {totp}]
          ELSE /\ tokenPersisted
               /\ IF CountsAsFailure(username, password, totp)
                  THEN /\ user.FailedLoginAttempts < MaxAttempts
                       /\ users' = [users EXCEPT ![username] =
                                      IncrementFailedLoginAttempts(user)]
                  ELSE UNCHANGED users
               /\ UNCHANGED <<liveTokens, liveSince, userTokens, dbTokens,
                              nextToken, usedTOTP, storageFailed, ops>>
    /\ UNCHANGED <<registrationTokens, now, calls, deletedOK>>
    /\ UNCHANGED completedWith
    /\ UNCHANGED revokedHashes
    /\ UNCHANGED hubVars
    /\ UNCHANGED extVars

\* The loop of DeleteUser and ResetPassword over the user's token hashes:
\* liveTokens.Del, and storage.DeleteToken whose error is only logged.
RevokeTokens(userID, failed) ==
    /\ liveTokens' = [h \in Hashes |->
                        IF h \in Range(userTokens[userID]) THEN None ELSE liveTokens[h]]
    /\ liveSince' = [h \in Hashes |->
                        IF h \in Range(userTokens[userID]) THEN 0 ELSE liveSince[h]]
    /\ dbTokens' = [h \in Hashes |->
                        IF h \in Range(userTokens[userID]) \ failed
                        THEN None ELSE dbTokens[h]]
    /\ userTokens' = [userTokens EXCEPT ![userID] = <<>>]
    /\ revokedHashes' = revokedHashes \cup Range(userTokens[userID])

DeleteUser(userID, credsPersisted, failed) ==
    /\ users[userID].Status # "none"
    /\ failed \subseteq Range(userTokens[userID])
    /\ users' = [users EXCEPT ![userID] =
                   [@ EXCEPT !.Status = "deleted", !.PasswordHash = <<>>,
                             !.TOTPSecret = ""]]
    /\ IF credsPersisted
       THEN /\ RevokeTokens(userID, failed)
            /\ StorageErrors(Cardinality(failed))
            /\ deletedOK' = [deletedOK EXCEPT ![userID] = TRUE]
       ELSE /\ failed = {}
            /\ StorageErrors(1)
            /\ UNCHANGED <<liveTokens, liveSince, dbTokens, userTokens, deletedOK,
                           revokedHashes>>
    /\ UNCHANGED <<registrationTokens, nextToken, now, calls, usedTOTP>>
    /\ Op
    /\ UNCHANGED completedWith
    /\ UNCHANGED hubVars
    /\ UNCHANGED extVars

ResetPassword(userID, credsPersisted, failed) ==
    /\ users[userID].Status # "none"
    /\ failed \subseteq Range(userTokens[userID])
    /\ nextToken <= MaxTokens
    /\ RevokeTokens(userID, failed)
    /\ StorageErrors(Cardinality(failed) + Bit(credsPersisted))
    /\ users' = [users EXCEPT ![userID] =
                   [NoUser EXCEPT !.Status = "created",
                                  !.TOTPSecret = NewSecret(users[userID].TOTPSecret)]]
    /\ nextToken' = nextToken + 1
    /\ registrationTokens' =
         IF credsPersisted
         THEN [DropRegistrationTokens(userID) EXCEPT ![nextToken] = userID]
         ELSE registrationTokens
    /\ deletedOK' = [deletedOK EXCEPT ![userID] = FALSE]
    /\ UNCHANGED <<now, calls, usedTOTP>>
    /\ Op
    /\ UNCHANGED completedWith
    /\ UNCHANGED hubVars
    /\ UNCHANGED extVars

\* The error GetRegistrationInfo(token) returns, "" when it returns the
\* username and the TOTP secret of the token's user.
GetRegistrationInfo(token) ==
    IF registrationTokens[token] = None
        THEN "invalid or expired registration token"
    ELSE IF users[registrationTokens[token]].Status = "none"
        THEN "user not found"
    ELSE ""

\* GetUserID up to the lookup of the token hash, before users.Lock();
\* op tells whether the call is the one Logoff starts with.
GetUserIDGet(a, token, op) ==
    /\ calls[a] = NoCall
    /\ token < nextToken
    /\ liveTokens[hashToken(token)] # None
    /\ calls' = [calls EXCEPT ![a] =
                   [op |-> op, token |-> token,
                    userID |-> liveTokens[hashToken(token)], totp |-> 0]]
    /\ UNCHANGED <<users, liveTokens, liveSince, userTokens, registrationTokens,
                   dbTokens, nextToken, now, usedTOTP, deletedOK, storageFailed>>
    /\ Op
    /\ UNCHANGED completedWith
    /\ UNCHANGED revokedHashes
    /\ UNCHANGED hubVars
    /\ UNCHANGED extVars

\* GetUserID under users.Lock(): liveTokens.Set(tokenHash, userID)
GetUserIDSet(a) ==
    /\ calls[a].op \in {"GetUserID", "Logoff"}
    /\ liveTokens' = [liveTokens EXCEPT ![hashToken(calls[a].token)] = calls[a].userID]
    /\ liveSince' = [liveSince EXCEPT ![hashToken(calls[a].token)] = now]
    /\ calls' = [calls EXCEPT ![a] =
                   IF calls[a].op = "Logoff" THEN [@ EXCEPT !.op = "revoke"]
                   ELSE NoCall]
    /\ UNCHANGED <<users, userTokens, registrationTokens, dbTokens, nextToken,
                   now, usedTOTP, deletedOK, storageFailed>>
    /\ Op
    /\ UNCHANGED completedWith
    /\ UNCHANGED revokedHashes
    /\ UNCHANGED hubVars
    /\ UNCHANGED extVars

\* Logoff after GetUserID: storage.DeleteToken (its error is only logged),
\* liveTokens.Del, the removal from userTokens.
Logoff(a, deleted) ==
    /\ calls[a].op = "revoke"
    /\ StorageErrors(Bit(deleted))
    /\ LET tokenHash == hashToken(calls[a].token)
       IN /\ dbTokens' = IF deleted THEN [dbTokens EXCEPT ![tokenHash] = None]
                         ELSE dbTokens
          /\ liveTokens' = [liveTokens EXCEPT ![tokenHash] = None]
          /\ liveSince' = [liveSince EXCEPT ![tokenHash] = 0]
          /\ userTokens' = [userTokens EXCEPT ![calls[a].userID] =
                              DeleteHash(@, tokenHash)]
          /\ revokedHashes' = revokedHashes \cup {tokenHash}
    /\ calls' = [calls EXCEPT ![a] = NoCall]
    /\ UNCHANGED <<users, registrationTokens, nextToken, now, usedTOTP, deletedOK>>
    /\ Op
    /\ UNCHANGED completedWith
    /\ UNCHANGED hubVars
    /\ UNCHANGED extVars

\* The TTL cache drops an entry not Set for TokenExpiry and runs the OnEvict
\* callback of NewAuthService.
Evict(tokenHash, deleted) ==
    /\ liveTokens[tokenHash] # None
    /\ now >= liveSince[tokenHash] + TokenExpiry
    /\ StorageErrors(Bit(deleted))
    /\ liveTokens' = [liveTokens EXCEPT ![tokenHash] = None]
    /\ liveSince' = [liveSince EXCEPT ![tokenHash] = 0]
    /\ userTokens' = [userTokens EXCEPT ![liveTokens[tokenHash]] =
                        DeleteHash(@, tokenHash)]
    /\ dbTokens' = IF deleted THEN [dbTokens EXCEPT ![tokenHash] = None]
                   ELSE dbTokens
    /\ UNCHANGED <<users, registrationTokens, nextToken, now, calls, usedTOTP,
                   deletedOK>>
    /\ Op
    /\ UNCHANGED completedWith
    /\ UNCHANGED revokedHashes
    /\ UNCHANGED hubVars
    /\ UNCHANGED extVars

\* Time passes: as.now() returns a later instant.
Tick(t) ==
    /\ t > now
    /\ now' = t
    /\ UNCHANGED <<users, liveTokens, liveSince, userTokens, registrationTokens,
                   dbTokens, nextToken, calls, usedTOTP, deletedOK, storageFailed,
                   ops>>
    /\ UNCHANGED completedWith
    /\ UNCHANGED revokedHashes
    /\ UNCHANGED hubVars
    /\ UNCHANGED extVars

AuthNext ==
    \/ \E u \in Users : AddUser(u)
    \/ \E token \in Tokens, password \in Passwords, totp \in Codes,
          credsPersisted \in BOOLEAN, tokenPersisted \in BOOLEAN :
            CompleteRegistration(token, password, totp, credsPersisted, tokenPersisted)
    \/ \E u \in Users, password \in Presented, totp \in Codes,
          tokenPersisted \in BOOLEAN : Login(u, password, totp, tokenPersisted)
    \/ \E u \in Users, credsPersisted \in BOOLEAN, failed \in SUBSET Hashes :
          DeleteUser(u, credsPersisted, failed)
    \/ \E u \in Users, credsPersisted \in BOOLEAN, failed \in SUBSET Hashes :
          ResetPassword(u, credsPersisted, failed)
    \/ \E a \in AuthProcs, token \in Tokens, op \in {"GetUserID", "Logoff"} :
          GetUserIDGet(a, token, op)
    \/ \E a \in AuthProcs : GetUserIDSet(a)
    \/ \E a \in AuthProcs, deleted \in BOOLEAN : Logoff(a, deleted)
    \/ \E h \in Hashes, deleted \in BOOLEAN : Evict(h, deleted)
    \/ \E t \in Instants : Tick(t)

\* Login under users.RLock(), the shared lock: the goroutines inside Login run
\* side by side, each on the *UserCredentials the cache holds.  The checks
\* of Login up to the one that decides the call.
LoginCheck(l, username, password, totp) ==
    /\ logins[l].pc = "idle"
    /\ logins' = [logins EXCEPT ![l] =
          [NoLogin EXCEPT
             !.username = username, !.password = password, !.totp = totp,
             !.pc = IF LoginResult(username, password, totp) = "" THEN "succeed"
                    ELSE IF CountsAsFailure(username, password, totp) THEN "fail"
                    ELSE "failed"]]
    /\ UNCHANGED <<conn, db, got>>
    /\ UNCHANGED <<hubVars, authVars>>

\* uc.FailedLoginAttempts++ reads the counter ...
LoginIncrementRead(l) ==
    /\ logins[l].pc = "fail"
    /\ logins' = [logins EXCEPT ![l].pc = "incr",
                                ![l].attempts = users[logins[l].username].FailedLoginAttempts]
    /\ UNCHANGED <<conn, db, got>>
    /\ UNCHANGED <<hubVars, authVars>>

\* ... and writes it back one larger; uc.LastAttemptTime = now.Unix(); Login
\* returns the failure.
LoginIncrementWrite(l) ==
    /\ logins[l].pc = "incr"
    /\ users' = [users EXCEPT ![logins[l].username] =
                   [@ EXCEPT !.FailedLoginAttempts = logins[l].attempts + 1,
                             !.LastAttemptTime = now]]
    /\ logins' = [logins EXCEPT ![l].pc = "failed", ![l].counted = TRUE]
    /\ UNCHANGED <<liveTokens, liveSince, userTokens, registrationTokens, dbTokens,
                   nextToken, now, calls, usedTOTP, deletedOK, storageFailed, ops,
                   completedWith, revokedHashes>>
    /\ UNCHANGED <<conn, db, got>>
    /\ UNCHANGED hubVars

\* The rest of a Login that passed the checks: the session token,
\* ResetFailedLoginAttempts, LastTOTP = req.TOTP; Login returns the token.
LoginSucceed(l) ==
    /\ logins[l].pc = "succeed"
    /\ IssueToken(logins[l].username, TRUE)
    /\ users' = [users EXCEPT ![logins[l].username] =
                   [@ EXCEPT !.FailedLoginAttempts = 0,
                             !.LastAttemptTime = now,
                             !.LastTOTP = logins[l].totp]]
    /\ logins' = [logins EXCEPT ![l].pc = "ok"]
    /\ UNCHANGED <<registrationTokens, now, calls, usedTOTP, deletedOK,
                   storageFailed, ops, completedWith, revokedHashes>>
    /\ UNCHANGED <<conn, db, got>>
    /\ UNCHANGED hubVars

\* The Login calls of two goroutines, one call each.
LoginNext ==
    \/ \E l \in LoginProcs, u \in Users, password \in Presented, totp \in Codes :
          LoginCheck(l, u, password, totp)
    \/ \E l \in LoginProcs : LoginIncrementRead(l)
    \/ \E l \in LoginProcs : LoginIncrementWrite(l)
    \/ \E l \in LoginProcs : LoginSucceed(l)

\* Hub.EnsureDMsFor(user, allUsers) under the write lock: createChat for
\* every DM of the user the hub does not have; the new chat has no members.
EnsureDMsFor(user, allUsers) ==
    /\ ~panicked
    /\ hubMu = None
    /\ hubChats' = hubChats \cup {getDMID(user, other) : other \in allUsers \ {user}}
    /\ chats' = [c \in AllChatIDs |->
                   IF c \in hubChats' \ hubChats THEN New ELSE chats[c]]
    /\ UNCHANGED <<chatMux, hubMu, connectedUsers, chans, nextChan, dbMessages, pc, loc,
                   panicked, appended, persistFailed, fanout, joinMsgs, dropped>>
    /\ UNCHANGED <<rejected, removed>>
    /\ UNCHANGED authVars
    /\ UNCHANGED extVars

\* The user who registers while the hub runs, and the users the auth service
\* knows then.
NewUser == "u3"

\* The first goroutine serves u1, the second the new user.
ClientsOfNew(p) == IF p = "p1" THEN {"u1"} ELSE {NewUser}

\* Hub.Join of a user who has a session token: the new user has one once
\* RegisterHandler has called EnsureDMsFor.
JoinRegistered(p, u) ==
    /\ u = NewUser => getDMID(NewUser, "u1") \in hubChats
    /\ HubJoin(p, u)

\* The hub of u1 and u2 while u3 registers (RegisterHandler calls
\* EnsureDMsFor before it hands the session cookie to the new user) and
\* connects; the clients send records and stay connected.
EnsureNext ==
    \/ EnsureDMsFor(NewUser, UserIDs)
    \/ \E p \in Procs : \E u \in ClientsOfNew(p) : JoinRegistered(p, u)
    \/ \E p \in Procs, c \in AllChatIDs : HubJoinChat(p, c)
    \/ \E p \in Procs, c \in AllChatIDs : Dispatch(p, c, "send")
    \/ \E p \in Procs : AddRecord(p)
    \/ \E p \in Procs, r \in UserIDs : CallbackLookup(p, r)
    \/ \E p \in Procs : CallbackSend(p)
    \/ \E p \in Procs : WriteToClient(p)

\* The hub and its chats; the auth service stays as constructed.
Spec == Init /\ [][Next]_vars

\* The hub while a new user registers and connects.
EnsureSpec == Init /\ [][EnsureNext]_vars

\* Login calls that run side by side.
LoginSpec == Init /\ [][LoginNext]_vars

\* The calls that read or write the registration tokens, with a
\* CompleteRegistration that other calls interleave with.
RegNext ==
    \/ \E u \in Users : AddUser(u)
    \/ \E token \in Tokens, password \in Passwords, totp \in Codes,
          credsPersisted \in BOOLEAN, tokenPersisted \in BOOLEAN :
            CompleteRegistration(token, password, totp, credsPersisted, tokenPersisted)
    \/ \E a \in AuthProcs, token \in Tokens, totp \in Codes :
          CompleteRegistrationGet(a, token, totp)
    \/ \E a \in AuthProcs, password \in Passwords,
          credsPersisted \in BOOLEAN, tokenPersisted \in BOOLEAN :
            CompleteRegistrationLocked(a, password, credsPersisted, tokenPersisted)
    \/ \E u \in Users, credsPersisted \in BOOLEAN, failed \in SUBSET Hashes :
          DeleteUser(u, credsPersisted, failed)
    \/ \E u \in Users, credsPersisted \in BOOLEAN, failed \in SUBSET Hashes :
          ResetPassword(u, credsPersisted, failed)
    \/ \E t \in Instants : Tick(t)

\* The hub of the three users beside the auth service as constructed.
Init3 == Hub3Init /\ AuthInit /\ ExtInit

\* The hub of three users and its chats; the auth service stays as constructed.
Hub3Spec == Init3 /\ [][Hub3Next]_vars

\* The auth service; the hub stays as constructed.
AuthSpec == Init /\ [][AuthNext]_vars

\* The registration of users; no user logs in.
RegSpec == Init /\ [][RegNext]_vars

\* A chat over the storage, used without the hub.
ChatSpec == Init /\ [][ChatNext]_vars

\* The storage and its callers.
StoreSpec == Init /\ [][StoreNext]_vars

\* A chat over the storage, restored by NewHub when the process starts again.
RestoreSpec == Init /\ [][RestoreNext]_vars

\* The hub and the auth service as constructed beside a storage file that may
\* hold a legacy token bucket.
MigInit == HubInit /\ AuthInit /\ MigExtInit

\* The token buckets of the storage and the migration of the legacy bucket.
MigrateSpec == MigInit /\ [][MigrateNext]_vars

\* One connection over the messageHub interface; the hub and the auth service
\* stay as constructed.
ConnSpec == Init /\ [][ConnNext]_vars

\* ------------------------------------------------------------ properties

StrictlyIncreasing(q) == \A i \in 1..Len(q) : \A j \in 1..Len(q) : i < j => q[i] < q[j]

\* C1: in every chat whose persistence calls all succeeded, the seqs given to
\* the appended records are 1, 2, ..., n in append order, whatever the
\* interleaving of the appending connections.
C1_DenseSeq ==
    \A c \in ChatIDs :
        ~persistFailed[c] => appended[c] = [i \in 1..Len(appended[c]) |-> i]

\* Two connections of different users have appended to one chat.
C1_Witness ==
    \E c \in ChatIDs :
        /\ ~persistFailed[c]
        /\ Len(appended[c]) = 2
        /\ dbMessages[c][1] # dbMessages[c][2]
        /\ dbMessages[c][1] # None /\ dbMessages[c][2] # None

\* C2: an append whose UpsertMessage fails leaves the chat buffer (LastSeq,
\* FirstSeq, Records, LastIndex) as it was before the call.
C2_FailedAppendKeepsState ==
    [][\A p \in Procs : AddRecordFail(p) => chats' = chats]_hubVars

\* C3: no appender that holds a chat lock waits for the hub lock while the
\* holder of the hub lock (Join or Leave) waits for that chat lock.
C3_NoLockCycle ==
    ~ \E p \in Procs, q \in Procs :
        /\ pc[p] = "callback"
        /\ chatMux[loc[p].chat] = p
        /\ hubMu = q
        /\ pc[q] \in {"joinChats", "leaveChats"}
        /\ \A c \in loc[q].todo : chatMux[c] = p

Sending(p) == pc[p] \in {"callbackSend", "sendToUserSend"}

\* C4: a delivery channel never holds more than its capacity; a send that
\* finds an open channel full leaves the channel as it was (the message is
\* dropped, the channel stays open), leaves the hub's registrations as they
\* were and completes; a send is never blocked.
C4_BoundedQueueDrops ==
    /\ [](\A i \in DOMAIN chans : Len(chans[i].buf) <= QueueCap)
    /\ [](\A p \in Procs :
            (Sending(p) /\ ~panicked) =>
                ENABLED (CallbackSend(p) \/ SendToUserSend(p)))
    /\ [][\A p \in Procs :
            ( /\ Sending(p)
              /\ pc'[p] # pc[p]
              /\ ~chans[loc[p].ch].closed
              /\ Len(chans[loc[p].ch].buf) = QueueCap )
            => /\ chans'[loc[p].ch] = chans[loc[p].ch]
               /\ connectedUsers' = connectedUsers
               /\ ~panicked'
               /\ ~Sending(p)']_hubVars

\* A message has been dropped on a channel that is still full, open and
\* registered for a user.
C4_Witness ==
    /\ dropped # 0
    /\ Len(chans[dropped].buf) = QueueCap
    /\ ~chans[dropped].closed
    /\ \E u \in Users : connectedUsers[u] = dropped

C6_NoTOTPReuse ==
    \A u \in Users : \A c \in usedTOTP[u] : \A password \in Presented :
        LoginResult(u, password, c) = "Login failed"

\* C7 as stated: for every user of the credentials index, Login answers "Too
\* many failed login attempts" exactly while failedLoginAttempts > 3 and now is
\* earlier than lastAttemptTime + 30 * failedLoginAttempts^2.
C7_ThrottledExactlyWhile ==
    \A u \in Users : users[u].Status # "none" =>
        \A password \in Presented, c \in Codes :
            (LoginResult(u, password, c) = "Too many failed login attempts")
              <=> /\ users[u].FailedLoginAttempts > 3
                  /\ now < users[u].LastAttemptTime
                             + 30 * users[u].FailedLoginAttempts
                                  * users[u].FailedLoginAttempts

\* A correct attempt: the user's password and a code of the window that is
\* not the last one used.
Correct(u, password, c) ==
    /\ users[u].PasswordHash = hashPassword(u, password)
    /\ users[u].LastTOTP # -1
    /\ \E i \in {-1, 0, 1} : c = GenerateTOTP(users[u].TOTPSecret, now + 30 * i)
    /\ c # users[u].LastTOTP

\* C7, amended: for a user whose status is active, Login answers "Too many
\* failed login attempts", whatever the password and the code, exactly while
\* failedLoginAttempts > 3 and now is earlier than lastAttemptTime
\* + 30 * failedLoginAttempts^2; with four failures every attempt is rejected
\* so during 480 seconds, and a correct attempt made 480 seconds or more after
\* the fourth failure succeeds.
C7_ThrottledWhileActive ==
    \A u \in Users : users[u].Status = "active" =>
        \A password \in Presented, c \in Codes :
            /\ (LoginResult(u, password, c) = "Too many failed login attempts")
                 <=> /\ users[u].FailedLoginAttempts > 3
                     /\ now < users[u].LastAttemptTime
                                + 30 * users[u].FailedLoginAttempts
                                     * users[u].FailedLoginAttempts
            /\ users[u].FailedLoginAttempts = 4 =>
                 IF now < users[u].LastAttemptTime + 480
                 THEN /\ LoginResult(u, password, c) # ""
                      /\ ~CountsAsFailure(u, password, c)
                 ELSE Correct(u, password, c) => LoginResult(u, password, c) = ""

\* Four failed logins of an active user, and the clock 480 seconds past the
\* fourth: a correct attempt is possible and an earlier one was rejected.
C7_Witness ==
    \E u \in Users :
        /\ users[u].Status = "active"
        /\ users[u].FailedLoginAttempts = 4
        /\ now = users[u].LastAttemptTime + 480
        /\ \E password \in Presented, c \in Codes : Correct(u, password, c)

\* C8: after DeleteUser returned nil for a user (and until an admin invites
\* the user again or resets the password) the user is deleted with password
\* hash and TOTP secret cleared, no token hash of the user is in the live
\* index, the per-user list or storage, and every Login of the user returns
\* "Login failed".
C8_DeleteUserRevokes ==
    \A u \in Users : deletedOK[u] =>
        /\ users[u].Status = "deleted"
        /\ users[u].PasswordHash = <<>>
        /\ users[u].TOTPSecret = ""
        /\ \A h \in Hashes : liveTokens[h] # u /\ dbTokens[h] # u
        /\ userTokens[u] = <<>>
        /\ \A password \in Presented, c \in Codes :
               LoginResult(u, password, c) = "Login failed"

\* C9: whenever no GetUserID or Logoff is in progress, a hash maps to a user
\* in liveTokens exactly if it is in the user's list of userTokens.
C9_TokenIndexTwoSided ==
    (\A a \in AuthProcs : calls[a] = NoCall) =>
        \A u \in Users, h \in Hashes :
            liveTokens[h] = u <=> h \in Range(userTokens[u])

\* C10: a Login that returns success leaves the hash of the token it returns
\* in storage and in liveTokens, both mapped to the user.
C10_LoginTokenStored ==
    [][\A u \in Users, password \in Presented, c \in Codes, persisted \in BOOLEAN :
          (Login(u, password, c, persisted) /\ LoginResult(u, password, c) = "")
            => /\ dbTokens'[hashToken(nextToken)] = u
               /\ liveTokens'[hashToken(nextToken)] = u]_vars

\* C11: when Logoff(T) of a live token T of user U returns, the hash of T is
\* in neither liveTokens, nor the list of U in userTokens, nor storage, and
\* every other live token of U is live as before.
C11_LogoffRevokesOne ==
    [][\A a \in AuthProcs, deleted \in BOOLEAN :
          Logoff(a, deleted) =>
            LET tokenHash == hashToken(calls[a].token)
                userID == calls[a].userID
            IN /\ liveTokens'[tokenHash] = None
               /\ tokenHash \notin Range(userTokens'[userID])
               /\ dbTokens'[tokenHash] = None
               /\ \A h \in Hashes \ {tokenHash} :
                     liveTokens[h] = userID => liveTokens'[h] = userID]_vars

\* C12: when ResetPassword(U) returns a registration token, no hash that was
\* in the list of U is left in liveTokens, userTokens or storage, the password
\* hash is cleared, the TOTP secret is another one, the status is created,
\* LastTOTP is -1, and the returned token is the only registration token of U.
C12_ResetPasswordRevokes ==
    [][\A u \in Users, failed \in SUBSET Hashes :
          ResetPassword(u, TRUE, failed) =>
            /\ \A h \in Range(userTokens[u]) :
                  liveTokens'[h] = None /\ dbTokens'[h] = None
            /\ \A h \in Hashes : liveTokens'[h] # u /\ dbTokens'[h] # u
            /\ userTokens'[u] = <<>>
            /\ users'[u].PasswordHash = <<>>
            /\ users'[u].TOTPSecret # users[u].TOTPSecret
            /\ users'[u].Status = "created"
            /\ users'[u].LastTOTP = -1
            /\ \A t \in Tokens : registrationTokens'[t] = u <=> t = nextToken]_vars

\* C13: a registration token a CompleteRegistration has succeeded with is
\* rejected by GetRegistrationInfo from then on, and no CompleteRegistration
\* succeeds with it again, be it a call that looked the token up before the
\* first one succeeded; a call succeeds only for a user whose LastTOTP is -1
\* and with a code of the window of the user's secret.
C13_OneCompletionPerToken ==
    /\ [](\A t \in completedWith : GetRegistrationInfo(t) # "")
    /\ [][\A token \in Tokens, password \in Passwords, totp \in Codes,
             tokenPersisted \in BOOLEAN :
               CompleteRegistration(token, password, totp, TRUE, tokenPersisted) =>
                 /\ token \notin completedWith
                 /\ users[registrationTokens[token]].LastTOTP = -1
                 /\ Window(users[registrationTokens[token]].TOTPSecret, totp, now)]_vars
    /\ [][\A a \in AuthProcs, password \in Passwords, tokenPersisted \in BOOLEAN :
               ( /\ CompleteRegistrationLocked(a, password, TRUE, tokenPersisted)
                 /\ users' # users ) =>
                 /\ calls[a].token \notin completedWith
                 /\ users[calls[a].userID].LastTOTP = -1
                 /\ Window(users[calls[a].userID].TOTPSecret, calls[a].totp, now)]_vars

Unknown == "nobody"

\* C15 as stated: every Login that fails returns the message "Login failed",
\* whatever the username, the password and the code.
C15_OneFailureMessage ==
    \A u \in Users \cup {Unknown}, password \in Presented, c \in Codes :
        LoginResult(u, password, c) \in {"", "Login failed"}

\* C15, amended: Login returns "Login failed" for an unknown username, for a
\* deleted user and for a user who has not completed the registration,
\* whatever the password and the code; for an active user who is not in the
\* throttle window it returns "Login failed" for a wrong password, for the
\* code of the last login and for a code out of the window.  The only other
\* failure message is "Too many failed login attempts", returned for an
\* active user in the throttle window whatever the password and the code.
C15_OneMessageUnlessThrottled ==
    \A u \in Users \cup {Unknown}, password \in Presented, c \in Codes :
        LET r == LoginResult(u, password, c)
            user == users[u]
            inWindow == /\ user.FailedLoginAttempts > 3
                        /\ now < user.LastAttemptTime
                                   + 30 * user.FailedLoginAttempts
                                        * user.FailedLoginAttempts
        IN IF u = Unknown THEN r = "Login failed"
           ELSE IF user.Status # "active" THEN r = "Login failed"
           ELSE IF inWindow THEN r = "Too many failed login attempts"
           ELSE /\ r \in {"", "Login failed"}
                /\ user.PasswordHash # hashPassword(u, password) => r = "Login failed"
                /\ c = user.LastTOTP => r = "Login failed"
                /\ ~Window(user.TOTPSecret, c, now) => r = "Login failed"

\* An active user has failed four logins and the throttle window is over;
\* another user is deleted.
C15_Witness ==
    \E u \in Users, v \in Users :
        /\ users[u].Status = "active"
        /\ users[u].FailedLoginAttempts = 4
        /\ now >= users[u].LastAttemptTime + 480
        /\ users[v].Status = "deleted"

\* C16: for every user of the credentials index, LastTOTP is -1 exactly if
\* the status is created.
C16_LastTOTPIffCreated ==
    \A u \in Users : users[u].Status # "none" =>
        (users[u].LastTOTP = -1 <=> users[u].Status = "created")

\* C17: whenever the status of a user of the credentials index changes, it
\* changes from created to active, from active to deleted or from deleted to
\* created.
C17_StatusTransitions ==
    [][\A u \in Users :
          (users[u].Status # "none" /\ users'[u].Status # users[u].Status) =>
            <<users[u].Status, users'[u].Status>> \in
              {<<"created", "active">>, <<"active", "deleted">>,
               <<"deleted", "created">>}]_vars

\* A DM of user U
Involves(c, U) == c[1] = "dm" /\ U \in {c[2], c[3]}

\* What RemoveDeletedUser(U) does to the chats and to the channel of U: no
\* chat of U is left in h.chats, Town Hall and the DMs of the other users are,
\* the channel registered for U is closed and deleted from connectedUsers.
RemovedChatsAndQueue(U) ==
    /\ \A c \in hubChats' : ~Involves(c, U)
    /\ \A c \in hubChats : ~Involves(c, U) => c \in hubChats'
    /\ TownHall \in hubChats'
    /\ connectedUsers'[U] = 0
    /\ connectedUsers[U] # 0 => chans'[connectedUsers[U]].closed

Owners(i) ==
    {u \in UserIDs : connectedUsers[u] = i}
        \cup {loc[p].userID : p \in {q \in Procs : loc[q].fromServer = i}}

\* No record of a DM has been enqueued for a user who is not one of the two
\* users of the DM, and none waits in a channel of such a user.
DMRecordsStayInDM ==
    /\ \A u \in UserIDs, c \in AllChatIDs :
          (c[1] = "dm" /\ ~Involves(c, u)) => fanout[u][c] = <<>>
    /\ \A i \in DOMAIN chans : \A k \in 1..Len(chans[i].buf) :
          chans[i].buf[k].ChatID[1] = "dm" =>
            \A u \in Owners(i) : Involves(chans[i].buf[k].ChatID, u)

\* The fan-out of a Town Hall record goes over the users marked members of
\* Town Hall when the record is appended, the sender among them when marked.
TownHallFanout ==
    [][\A p \in Procs :
          (AddRecord(p) /\ loc[p].chat = TownHall /\ OnlineMembers(TownHall) # {})
          => /\ loc'[p].pending = {u \in UserIDs : chats[TownHall].Members[u]}
             /\ chats[TownHall].Members[loc[p].userID] =>
                   loc[p].userID \in loc'[p].pending]_vars

C20_RejectedDispatchNoEffect ==
    /\ [][\A p \in Procs, c \in AllChatIDs, typ \in {"send", "join"} :
            ( /\ Dispatch(p, c, typ)
              /\ \/ c \notin hubChats
                 \/ c[1] = "dm" /\ loc[p].userID \notin {c[2], c[3]} )
            => /\ chats' = chats
               /\ dbMessages' = dbMessages
               /\ appended' = appended
               /\ chans' = chans
               /\ fanout' = fanout
               /\ connectedUsers' = connectedUsers
               /\ pc'[p] = "connected"
               /\ loc'[p] = loc[p]
               /\ ~panicked']_vars
    /\ [](\A c \in AllChatIDs : \A n \in DOMAIN dbMessages[c] :
             dbMessages[c][n] # None =>
               (c = TownHall \/ Involves(c, dbMessages[c][n])))
    /\ [](chats[NoChat] = New /\ appended[NoChat] = <<>>)

\* A connection has had a client message rejected and is still connected,
\* its channel open and registered; nothing has been appended.
C20_Witness ==
    /\ rejected = 1
    /\ \A c \in AllChatIDs : appended[c] = <<>> /\ chats[c].LastSeq = 0
    /\ \E p \in Procs :
          /\ pc[p] = "connected"
          /\ connectedUsers[loc[p].userID] = loc[p].fromServer
          /\ ~chans[loc[p].fromServer].closed

\* The records of a set in ascending seq order.
RECURSIVE BySeq(_)
BySeq(S) ==
    IF S = {} THEN <<>>
    ELSE LET first == CHOOSE x \in S : \A y \in S : x.Seq <= y.Seq
         IN <<first>> \o BySeq(S \ {first})

\* The last min(count, number of records held in the ring) records of a chat,
\* in ascending seq order.
LastHeld(c, count) ==
    LET held == BySeq({chats[c].Records[i] : i \in 1..Len(chats[c].Records)})
    IN SubSeq(held, Len(held) - Min(count, Len(held)) + 1, Len(held))

\* C21: a join message for a chat its sender may access is answered with
\* exactly one messages frame on the sender's queue, holding the last
\* min(100, number of records held in the ring) records of the chat in
\* ascending seq order, and nothing is put on another queue: reading the
\* history does not fail, what is read are the last records held, the sender
\* has a queue, and the send appends the frame to that queue and to no other.
C21_JoinReplyHistory ==
    /\ [](~panicked =>
            \A p \in Procs :
                pc[p] = "getLast" /\ chatMux[loc[p].chat] = None
                    => ~GetLastRecordsPanics(loc[p].chat, JoinHistory))
    /\ [][\A p \in Procs :
            /\ (pc[p] = "getLast" /\ pc'[p] = "sendToUser")
                   => loc'[p].reply = LastHeld(loc[p].chat, JoinHistory)
            /\ (pc[p] = "sendToUser" /\ pc'[p] # "sendToUser")
                   => pc'[p] = "sendToUserSend"
            /\ (pc[p] = "sendToUserSend" /\ pc'[p] # "sendToUserSend")
                   => chans' = [chans EXCEPT ![loc[p].ch].buf =
                                    Append(@, JoinReply(loc[p].chat, loc[p].reply))]
       ]_vars

\* C22: every client message the connection handler has read from the
\* transport, a join, a leave or a send, has been handed to Hub.Dispatch, in
\* the order it was read: whenever the reader is about to read the next frame
\* and the context is not done, the messages Dispatch got are the messages
\* read.
C22_ForwardsEveryMessage ==
    (conn.pump = "read" /\ ~conn.ctxDone) => conn.dispatched = conn.read

\* C23: when Handle has returned, the transport is closed, Leave was called
\* exactly once and both workers are done; Handle returned nil when the
\* context was cancelled and the transport did not fail, and the transport's
\* error when the transport failed and the context was not cancelled.
C23_HandleShutdown ==
    conn.handle = "returned" =>
        /\ conn.wsClosed
        /\ conn.leaves = 1
        /\ conn.pump = "done"
        /\ conn.main = "done"
        /\ (conn.cancelled /\ ~conn.wsFailed) => conn.returned = NoErr
        /\ (conn.wsFailed /\ ~conn.cancelled) => conn.returned = TransportErr

\* The seqs of a chat given to appends whose UpsertMessage failed.
FailedSeqs(c) == {s \in 1..chats[c].LastSeq : s \notin Range(appended[c])}

\* C24: a send whose append fails on persistence is dropped and the chat goes
\* on: no delivery channel ever holds a messages frame with the seq of a failed
\* append, the failing AddRecord enqueues nothing and returns with the chat
\* unlocked, and a chat is only ever locked by a goroutine inside the fan-out
\* of a successful append to that chat, so later sends to the chat get the lock.
C24_FailedAppendDropped ==
    /\ [](\A i \in DOMAIN chans : \A k \in 1..Len(chans[i].buf) :
            LET m == chans[i].buf[k] IN
            m.Type = "messages" =>
                \A j \in 1..Len(m.Messages) : m.Messages[j].Seq \notin FailedSeqs(m.ChatID))
    /\ [](\A c \in AllChatIDs :
            chatMux[c] # None =>
                /\ pc[chatMux[c]] \in {"callback", "callbackSend"}
                /\ loc[chatMux[c]].chat = c
                /\ loc[chatMux[c]].record.Seq \in Range(appended[c]))
    /\ [][\A p \in Procs :
            LET c == loc[p].chat IN
            (/\ pc[p] = "addRecord"
             /\ pc'[p] # "addRecord"
             /\ appended'[c] = appended[c])
                => /\ chans' = chans
                   /\ fanout' = fanout
                   /\ pc'[p] = "connected"
                   /\ chatMux'[c] = None
       ]_vars

\* A send to a chat was appended and enqueued for a member after an earlier
\* append to the chat had failed.
C24_Witness ==
    \E c \in ChatIDs, u \in Users :
        /\ persistFailed[c]
        /\ \E s \in Range(fanout[u][c]) : \E f \in FailedSeqs(c) : s > f

\* The records appended to a chat with storage whose seq is in [from, to), in
\* ascending seq order.
AppendedIn(c, from, to) ==
    BySeq({m \in db.messages[c] : m.Seq \in Range(appended[c]) /\ from <= m.Seq /\ m.Seq < to})

\* C25: GetRecords(from, to) with from <= to on a chat with storage returns,
\* without failing, exactly the records appended to the chat whose seq is at
\* least from and less than to, each once and in ascending seq order (the
\* empty sequence for an empty range).
C25_RangeRead ==
    got.op = "GetRecords" =>
        /\ ~got.panic
        /\ got.result = AppendedIn(got.args[1], got.args[2], got.args[3])

\* What ListMessages(chatID, 1, lastSeq) returns in a state, lastSeq being the
\* LastSeq of the chat.
Listed(d, ch, c) == ListMessages(d, c, 1, ch[c].LastSeq)

\* What it returns with lastSeq the LastSeq of the chat's record in the storage.
ListedToStored(d, c) ==
    IF d.chats[c] = Absent THEN <<>> ELSE ListMessages(d, c, 1, d.chats[c])

\* C26: ListMessages(chatID, 1, lastSeq) returns exactly the records appended
\* to the chat so far, each once and in the order of the appends: it returns
\* nothing before the first append, an append that succeeds adds its record at
\* the end of what it returns, and nothing else changes what it returns.
C26_ListMessagesRoundTrip ==
    /\ [](\A c \in AllChatIDs :
            /\ [i \in 1..Len(Listed(db, chats, c)) |-> Listed(db, chats, c)[i].Seq] = appended[c]
            /\ ListedToStored(db, c) = Listed(db, chats, c))
    /\ [][\A c \in AllChatIDs :
            IF got'.op = "AddRecord" /\ ~got'.err /\ got'.args[1] = c
            THEN Listed(db', chats', c) = Append(Listed(db, chats, c), got'.args[2])
            ELSE Listed(db', chats', c) = Listed(db, chats, c)
       ]_vars

\* ListMessages(chatID, 1, lastSeq) was called on a chat to which two records
\* were appended and an append failed, and returned two records.
C26_Witness ==
    /\ got.op = "ListMessages"
    /\ got.args = <<StoreChat, 1, db.chats[StoreChat]>>
    /\ Len(got.result) = 2
    /\ persistFailed[StoreChat]

\* C27: UpsertMessage is one atomic transaction.  A call for a chat that has
\* no record in the storage fails and leaves the storage as it was, the
\* message not stored; any other call succeeds, stores the message, and sets
\* the stored LastSeq of the chat to the larger of its previous value and the
\* seq of the message, so the call never lowers it.
C27_UpsertMessageAtomic ==
    [][got'.op = "UpsertMessage" =>
         LET chatID == got'.args[1]
             message == got'.args[2]
         IN IF db.chats[chatID] = Absent
            THEN /\ got'.err
                 /\ db' = db
                 /\ message \notin db'.messages[chatID]
            ELSE /\ ~got'.err
                 /\ message \in db'.messages[chatID]
                 /\ db'.chats[chatID] = IF message.Seq > db.chats[chatID]
                                         THEN message.Seq ELSE db.chats[chatID]
                 /\ db'.chats[chatID] >= db.chats[chatID]
                 /\ db'.tokens = db.tokens
                 /\ \A m \in db.messages[chatID] :
                        m.Seq # message.Seq => m \in db'.messages[chatID]
    ]_vars

\* UpsertMessage has stored a message whose seq is below the stored LastSeq of
\* its chat.
C27_Witness ==
    /\ got.op = "UpsertMessage"
    /\ ~got.err
    /\ got.args[2] \in db.messages[got.args[1]]
    /\ got.args[2].Seq < db.chats[got.args[1]]

\* The step drops the hash from the live index and is no revocation: no call
\* of Logoff ends in it, and no DeleteUser or ResetPassword runs in it.
Expires(h) ==
    /\ liveTokens[h] # None
    /\ liveTokens'[h] = None
    /\ calls' = calls
    /\ users' = users
    /\ deletedOK' = deletedOK
    /\ nextToken' = nextToken

\* C28: a step in which a live session token expires follows a whole
\* TokenExpiry in which GetUserID did not refresh the token, so a token that
\* is validated once per TokenExpiry never expires; and after the step the
\* hash is in the live index, in the token list of no user and in storage
\* no more.
C28_TokenExpiry ==
    [][\A h \in Hashes :
          Expires(h) =>
             /\ now >= liveSince[h] + TokenExpiry
             /\ \A u \in Users : h \notin Range(userTokens'[u])
             /\ dbTokens'[h] = None
    ]_vars

\* The online or offline event of a user (models.ServerMessage with Type
\* ServerMessageTypeOnline or ServerMessageTypeOffline).
PresenceMsg(type, userID) ==
    [Type |-> type, ChatID |-> NoChat, Messages |-> <<>>, via |-> "broadcast",
     UserID |-> userID]

\* C29: the step of Hub.Join that registers the channel of a user appends an
\* online event for the user to the channel of every other connected user and
\* puts none on the user's own channel; the step of Hub.Leave that closes and
\* unregisters the channel of a user appends an offline event for the user to
\* the channel of every user who stays connected.
C29_PresenceEvents ==
    [][\A p \in Procs :
          /\ (pc[p] = "idle" /\ pc'[p] = "joinChats") =>
                LET u == loc'[p].userID
                IN /\ \A v \in UserIDs \ {u} :
                         connectedUsers[v] # 0 =>
                            chans'[connectedUsers[v]].buf =
                               Append(chans[connectedUsers[v]].buf, PresenceMsg("online", u))
                   /\ \A i \in 1..Len(chans'[connectedUsers'[u]].buf) :
                         chans'[connectedUsers'[u]].buf[i] # PresenceMsg("online", u)
          /\ (pc[p] = "connected" /\ pc'[p] = "leaveChats") =>
                LET u == loc[p].userID
                IN \A v \in UserIDs \ {u} :
                      connectedUsers'[v] # 0 =>
                         chans'[connectedUsers'[v]].buf =
                            Append(chans[connectedUsers[v]].buf, PresenceMsg("offline", u))
    ]_vars

\* C30: the stored session tokens are keyed by their hash.  UpsertToken(u, h)
\* adds the entry of h, mapped to u, and leaves every entry of another hash as
\* it was, so ListTokens returns all the hashes of a user with several
\* sessions; DeleteToken(h) removes the entry of h and no other.
C30_TokensKeyedByHash ==
    [][/\ got'.op = "UpsertToken" =>
            ListTokens(db') =
                {e \in ListTokens(db) : e[1] # got'.args[2]}
                    \cup {<<got'.args[2], got'.args[1]>>}
       /\ got'.op = "DeleteToken" =>
            ListTokens(db') = {e \in ListTokens(db) : e[1] # got'.args[1]}
    ]_vars

\* C31: MigrateTokens is atomic and one-shot.  On a file without the legacy
\* bucket it changes nothing.  On a file with it, either the call fails and
\* the storage is as before, or every legacy token is in the new bucket under
\* the key of its hash, mapped to its user, the legacy bucket is gone and
\* nothing else has changed; so every later call finds no legacy bucket.
C31_MigrateTokens ==
    [][got'.op = "MigrateTokens" =>
         IF ~db.legacy.exists THEN ~got'.err /\ db' = db
         ELSE IF got'.err THEN db' = db
         ELSE /\ db'.legacy = NoBucket
              /\ \A e \in db.legacy.entries :
                    <<Hasher(e[2].Token),
                      [UserID |-> e[2].UserID, Token |-> Hasher(e[2].Token)]>>
                        \in db'.tokens
              /\ db'.chats = db.chats
              /\ db'.messages = db.messages
    ]_vars

\* A GetUserID or Logoff call for the token of hash h has not returned yet.
InFlight(h) ==
    \E a \in AuthProcs :
        /\ calls[a].op \in {"GetUserID", "Logoff", "revoke"}
        /\ hashToken(calls[a].token) = h

\* C32: once the DeleteUser, ResetPassword or Logoff that revoked a session
\* token and every GetUserID that ran beside it have returned, the hash of
\* the token is not in the live index; and no GetUserID that starts after the
\* revoking call has returned finds a user for the token.
C32_NoLiveTokenAfterRevoke ==
    /\ [](\A h \in revokedHashes : ~InFlight(h) => liveTokens[h] = None)
    /\ [][\A a \in AuthProcs :
            (calls[a] = NoCall /\ calls'[a].op \in {"GetUserID", "Logoff"})
                => hashToken(calls'[a].token) \notin revokedHashes]_vars

\* The Login calls that have returned for user u with a failure that counts.
CountedFailures(u) ==
    {l \in LoginProcs : logins[l].pc = "failed" /\ logins[l].counted /\ logins[l].username = u}

\* C33: of the Login calls for one user that run side by side and present the
\* same TOTP value at most one succeeds; and when the calls for a user have
\* returned and none of them succeeded, failedLoginAttempts of the user has
\* grown by one for every call that failed on the password or on the code.
C33_ConcurrentLogins ==
    /\ \A l1, l2 \in LoginProcs :
          (/\ l1 # l2
           /\ logins[l1].pc = "ok" /\ logins[l2].pc = "ok"
           /\ logins[l1].username = logins[l2].username)
              => logins[l1].totp # logins[l2].totp
    /\ \A u \in Users :
          (\A l \in LoginProcs :
               logins[l].username = u => logins[l].pc = "failed")
              => users[u].FailedLoginAttempts = Cardinality(CountedFailures(u))

\* Goroutine p is at the non-blocking send of handleRecordCallback or of
\* sendToUser, on the channel it looked up under the read lock.
AtSend(p) == pc[p] \in {"callbackSend", "sendToUserSend"}

\* C34: the hub never sends on a closed channel: when a fan-out callback or a
\* join reply takes its step of sending, the channel it looked up is open
\* (it enqueues, or drops on a full queue), however Leave of the receiver
\* interleaves.
C34_NoSendOnClosed ==
    [][\A p \in Procs :
          (AtSend(p) /\ (pc'[p] # pc[p] \/ panicked' # panicked))
              => ~chans[loc[p].ch].closed]_vars

\* C35: when one of two open connections of a user ends, the channel of the
\* other stays open and is the one registered for the user, and the user
\* stays marked in Town Hall and in the user's DMs, so that records keep
\* arriving on it.
C35_OtherConnectionStays ==
    [][\A p, q \in Procs :
          (/\ p # q
           /\ loc[p].userID = loc[q].userID
           /\ pc[q] = "connected"
           /\ pc[p] \in {"connected", "leaveChats"}
           /\ pc'[p] \in {"leaveChats", "idle"}
           /\ pc'[p] # pc[p] \/ chats' # chats)
              => /\ ~chans'[loc[q].fromServer].closed
                 /\ connectedUsers'[loc[q].userID] = loc[q].fromServer
                 /\ \A c \in hubChats :
                       chats[c].Members[loc[q].userID]
                           => chats'[c].Members[loc[q].userID]]_vars

\* C36: once the hub has closed the channel of a connection from outside the
\* connection, the handler writes no further frame to the client: mainLoop
\* does not take the receive on the closed channel for a message.
C36_ClosedQueueEndsHandler ==
    [][conn.serverClosed => conn'.written = conn.written]_vars

\* The user has a connection whose Hub.Join has returned and which has not
\* begun to leave.
HasJoined(u) ==
    \E q \in Procs :
        loc[q].userID = u /\ pc[q] \notin {"idle", "joinChats", "leaveChats"}

\* C37: a record appended to a DM is handed to the callback for each of the
\* two participants who is connected, the participant who connected before
\* EnsureDMsFor created the DM included.
C37_NewDMReachesConnected ==
    [][\A p \in Procs :
          (AddRecord(p) /\ loc[p].chat # TownHall)
              => \A u \in UserIDs :
                    (isUserInDM(u, loc[p].chat) /\ HasJoined(u))
                        => u \in loc'[p].pending]_vars

\* The last n elements of a sequence.
LastOf(seq, n) == SubSeq(seq, Len(seq) - n + 1, Len(seq))

\* The smaller of two numbers.
Least(a, b) == IF a < b THEN a ELSE b

\* C38: a chat restored from a storage that holds LastSeq = n for it has
\* LastSeq = n, so that the next append is given seq n + 1, and its ring holds
\* the last min(n, MaxRecords) stored records; and no append that succeeds is
\* given a seq under which the storage already holds a record.
C38_RestoreKeepsSeq ==
    [][/\ got'.op = "restoreChat" =>
            LET c == got'.args[1]
                n == got'.args[2]
                stored == InKeyOrder(db.messages[c])
            IN /\ chats'[c].LastSeq = n
               /\ Len(stored) >= Least(n, MaxRecords)
               /\ chats'[c].Records = LastOf(stored, Least(n, MaxRecords))
       /\ (got'.op = "AddRecord" /\ ~got'.err) =>
            \A m \in db.messages[got'.args[1]] : m.Seq # got'.args[2].Seq
    ]_vars

\* C39: a CompleteRegistration, a DeleteUser or a ResetPassword whose
\* storage.UpsertCredentials fails leaves the users' credentials and status and
\* the live session tokens as they were before the call.
C39_PersistFailureKeepsMemory ==
    [][/\ \A token \in Tokens, password \in Passwords, totp \in Codes :
             CompleteRegistration(token, password, totp, FALSE, TRUE) =>
                 users' = users /\ liveTokens' = liveTokens /\ userTokens' = userTokens
       /\ \A u \in Users :
             DeleteUser(u, FALSE, {}) =>
                 users' = users /\ liveTokens' = liveTokens /\ userTokens' = userTokens
       /\ \A u \in Users, failed \in SUBSET Hashes :
             ResetPassword(u, FALSE, failed) =>
                 users' = users /\ liveTokens' = liveTokens /\ userTokens' = userTokens
    ]_vars

\* C40: in every state of a chat that was appended to, with or without
\* success, and restored from the storage, the ring holds at most MaxRecords
\* records, their seqs are exactly FirstSeq..LastSeq, a ring that is not empty
\* holds LastSeq - FirstSeq + 1 records, and GetLastRecords(n) returns the
\* min(n, held) records with the highest seqs, in seq order.
C40_RingInvariant ==
    LET ch == chats[StoreChat]
        held == Len(ch.Records)
    IN /\ held <= MaxRecords
       /\ held = 0 => ch.LastSeq = 0
       /\ held > 0 =>
            /\ {ch.Records[i].Seq : i \in 1..held} = ch.FirstSeq..ch.LastSeq
            /\ ch.LastSeq - ch.FirstSeq + 1 = held
       /\ \A n \in 1..(MaxRecords + 1) :
            /\ ~GetLastRecordsPanics(StoreChat, n)
            /\ LET r == GetLastRecords(StoreChat, n)
               IN /\ Len(r) = Least(n, held)
                  /\ \A i \in 1..Len(r) :
                        /\ r[i].Seq = ch.LastSeq - Len(r) + i
                        /\ \E j \in 1..held : ch.Records[j] = r[i]

====
